---- MODULE Spec2Model ----
(***************************************************************************)
(* A model of premise's scenario data collection (data_collection.py) and  *)
(* of the proxy / relinking engine (transformation.py).                    *)
(*                                                                         *)
(* Numbers.  numpy floats are modelled as exact rationals extended with    *)
(* NaN, +inf and -inf, with the IEEE-754 rules numpy applies to them       *)
(* (x/0 = +-inf, 0/0 = NaN, inf-inf = NaN, 0*inf = NaN, every comparison   *)
(* with NaN false).  Rounding error of finite values and the sign of zero  *)
(* are not modelled.                                                       *)
(***************************************************************************)
EXTENDS Integers, Sequences, FiniteSets, TLC

\* ------------------------------------------------------------------------
\* Bounds of the model
\* ------------------------------------------------------------------------

\* raw values of the cubes range over 0..MaxVal
MaxVal == 2

\* ------------------------------------------------------------------------
\* Extended rational arithmetic (numpy float semantics)
\* ------------------------------------------------------------------------

Abs(i) == IF i < 0 THEN -i ELSE i

RECURSIVE Gcd(_, _)
Gcd(a, b) == IF b = 0 THEN a ELSE Gcd(b, a % b)

NaN == [k |-> "nan", n |-> 0, d |-> 1]

PInf == [k |-> "pinf", n |-> 0, d |-> 1]

NInf == [k |-> "ninf", n |-> 0, d |-> 1]

\* the rational n/d (d # 0) in lowest terms, denominator positive
Fin(n, d) ==
    LET s == IF d < 0 THEN -1 ELSE 1
        g == Gcd(Abs(n), Abs(d))
    IN [k |-> "fin", n |-> (s * n) \div g, d |-> (s * d) \div g]

Num(i) == [k |-> "fin", n |-> i, d |-> 1]

IsNaN(a) == a.k = "nan"

IsInf(a) == a.k \in {"pinf", "ninf"}

IsFin(a) == a.k = "fin"

\* sign of a non-NaN value: -1, 0 or 1
Sgn(a) ==
    CASE a.k = "pinf" -> 1
      [] a.k = "ninf" -> -1
      [] OTHER -> IF a.n > 0 THEN 1 ELSE IF a.n < 0 THEN -1 ELSE 0

InfOfSign(s) == IF s > 0 THEN PInf ELSE NInf

Neg(a) ==
    CASE a.k = "nan" -> NaN
      [] a.k = "pinf" -> NInf
      [] a.k = "ninf" -> PInf
      [] OTHER -> [k |-> "fin", n |-> -a.n, d |-> a.d]

Add(a, b) ==
    IF IsNaN(a) \/ IsNaN(b) THEN NaN
    ELSE IF IsInf(a) /\ IsInf(b) THEN (IF a.k = b.k THEN a ELSE NaN)
    ELSE IF IsInf(a) THEN a
    ELSE IF IsInf(b) THEN b
    ELSE Fin(a.n * b.d + b.n * a.d, a.d * b.d)

Sub(a, b) == Add(a, Neg(b))

Mul(a, b) ==
    IF IsNaN(a) \/ IsNaN(b) THEN NaN
    ELSE IF IsInf(a) \/ IsInf(b)
         THEN (IF Sgn(a) * Sgn(b) = 0 THEN NaN ELSE InfOfSign(Sgn(a) * Sgn(b)))
    ELSE Fin(a.n * b.n, a.d * b.d)

\* numpy true division: x/0 is +-inf for x # 0 and NaN for x = 0
Div(a, b) ==
    IF IsNaN(a) \/ IsNaN(b) THEN NaN
    ELSE IF IsInf(a) /\ IsInf(b) THEN NaN
    ELSE IF IsInf(a) THEN (IF Sgn(b) < 0 THEN Neg(a) ELSE a)
    ELSE IF IsInf(b) THEN Num(0)
    ELSE IF b.n = 0 THEN (IF a.n = 0 THEN NaN ELSE InfOfSign(a.n))
    ELSE Fin(a.n * b.d, a.d * b.n)

\* a < b ; False when either side is NaN
Lt(a, b) ==
    IF IsNaN(a) \/ IsNaN(b) THEN FALSE
    ELSE IF a.k = "pinf" \/ b.k = "ninf" THEN FALSE
    ELSE IF a.k = "ninf" \/ b.k = "pinf" THEN TRUE
    ELSE a.n * b.d < b.n * a.d

Gt(a, b) == Lt(b, a)

Le(a, b) == ~IsNaN(a) /\ ~IsNaN(b) /\ ~Lt(b, a)

\* sum of f[x] over the finite set S (numpy sum: NaN propagates)
RECURSIVE SumOver(_, _)
SumOver(S, f) ==
    IF S = {} THEN Num(0)
    ELSE LET x == CHOOSE y \in S : TRUE
         IN Add(f[x], SumOver(S \ {x}, f))

\* xarray .sum(): NaN entries are skipped (skipna)
SumSkipNa(S, f) == SumOver({x \in S : ~IsNaN(f[x])}, f)

\* xarray .fillna(v)
FillNa(a, v) == IF IsNaN(a) THEN v ELSE a

\* numpy.clip(a, lo, hi) == minimum(maximum(a, lo), hi); NaN stays NaN
Clip(a, lo, hi) ==
    IF IsNaN(a) THEN NaN
    ELSE IF Lt(a, lo) THEN lo
    ELSE IF Gt(a, hi) THEN hi
    ELSE a

SetMin(S) == CHOOSE x \in S : \A y \in S : x <= y

SetMax(S) == CHOOSE x \in S : \A y \in S : x >= y

\* ------------------------------------------------------------------------
\* Strings: Python's substring test `sub in s`
\* ------------------------------------------------------------------------

\* the characters of the strings the model tests with `in`
Text ==
    [s \in {"Coal", "Wind", "Gas CHP", "diesel", "hydrogen", "biomethane", "CHP",
             "steel production", "car production", "car market", "market", "steel",
             "steel, low-alloyed", "steel, unalloyed", "car",
             "electricity",
             "electricity, medium voltage",
             "market for electricity, medium voltage",
             "steam production, as energy carrier, in chemical industry",
             "heat, from steam, in chemical industry"} |->
        CASE s = "Coal" -> <<"C", "o", "a", "l">>
          [] s = "Wind" -> <<"W", "i", "n", "d">>
          [] s = "Gas CHP" -> <<"G", "a", "s", " ", "C", "H", "P">>
          [] s = "diesel" -> <<"d", "i", "e", "s", "e", "l">>
          [] s = "hydrogen" -> <<"h", "y", "d", "r", "o", "g", "e", "n">>
          [] s = "biomethane" -> <<"b", "i", "o", "m", "e", "t", "h", "a", "n", "e">>
          [] s = "CHP" -> <<"C", "H", "P">>
          [] s = "steel production" -> <<"s", "t", "e", "e", "l", " ", "p", "r">>
               \o <<"o", "d", "u", "c", "t", "i", "o", "n">>
          [] s = "car production" -> <<"c", "a", "r", " ", "p", "r", "o">>
               \o <<"d", "u", "c", "t", "i", "o", "n">>
          [] s = "car market" -> <<"c", "a", "r", " ", "m", "a", "r", "k", "e", "t">>
          [] s = "market" -> <<"m", "a", "r", "k", "e", "t">>
          [] s = "steel" -> <<"s", "t", "e", "e", "l">>
          [] s = "steel, low-alloyed" -> <<"s", "t", "e", "e", "l", ",", " ", "l", "o">>
               \o <<"w", "-", "a", "l", "l", "o", "y", "e", "d">>
          [] s = "steel, unalloyed" -> <<"s", "t", "e", "e", "l", ",", " ", "u">>
               \o <<"n", "a", "l", "l", "o", "y", "e", "d">>
          [] s = "car" -> <<"c", "a", "r">>
          [] s = "electricity" ->
               <<"e", "l", "e", "c", "t", "r", "i", "c", "i">>
               \o <<"t", "y">>
          [] s = "electricity, medium voltage" ->
               <<"e", "l", "e", "c", "t", "r", "i", "c", "i">>
               \o <<"t", "y", ",", " ", "m", "e", "d", "i", "u">>
               \o <<"m", " ", "v", "o", "l", "t", "a", "g", "e">>
          [] s = "market for electricity, medium voltage" ->
               <<"m", "a", "r", "k", "e", "t", " ", "f", "o">>
               \o <<"r", " ", "e", "l", "e", "c", "t", "r", "i">>
               \o <<"c", "i", "t", "y", ",", " ", "m", "e", "d">>
               \o <<"i", "u", "m", " ", "v", "o", "l", "t", "a">>
               \o <<"g", "e">>
          [] s = "steam production, as energy carrier, in chemical industry" ->
               <<"s", "t", "e", "a", "m", " ", "p", "r", "o">>
               \o <<"d", "u", "c", "t", "i", "o", "n", ",", " ">>
               \o <<"a", "s", " ", "e", "n", "e", "r", "g", "y">>
               \o <<" ", "c", "a", "r", "r", "i", "e", "r", ",">>
               \o <<" ", "i", "n", " ", "c", "h", "e", "m", "i">>
               \o <<"c", "a", "l", " ", "i", "n", "d", "u", "s">>
               \o <<"t", "r", "y">>
          [] s = "heat, from steam, in chemical industry" ->
               <<"h", "e", "a", "t", ",", " ", "f", "r", "o">>
               \o <<"m", " ", "s", "t", "e", "a", "m", ",", " ">>
               \o <<"i", "n", " ", "c", "h", "e", "m", "i", "c">>
               \o <<"a", "l", " ", "i", "n", "d", "u", "s", "t">>
               \o <<"r", "y">>]

\* Python `sub in s` on the character sequences a and b
SeqContains(sub, s) ==
    \E i \in 1..(Len(s) + 1) :
        /\ i + Len(sub) - 1 <= Len(s)
        /\ SubSeq(s, i, i + Len(sub) - 1) = sub

StrContains(sub, s) == SeqContains(Text[sub], Text[s])

\* ------------------------------------------------------------------------
\* The alias catalogues (electricity_tech_vars.yml, fuel_tech_vars.yml, ...)
\* premise label -> variable name of the IAM file
\* ------------------------------------------------------------------------

ElecIamAliases ==
    [l \in {"Coal", "Wind", "Gas CHP"} |->
        CASE l = "Coal" -> "SE|Elec|Coal"
          [] l = "Wind" -> "SE|Elec|Wind"
          [] l = "Gas CHP" -> "SE|Elec|GasCHP"]

ElecEffAliases == [l \in {"Coal"} |-> "Eff|Elec|Coal"]

ElecGainsAliases == [l \in {"Coal"} |-> "Power_Gen_Coal"]

FuelIamAliases ==
    [l \in {"diesel", "hydrogen", "biomethane"} |->
        CASE l = "diesel" -> "SE|Fuel|Diesel"
          [] l = "hydrogen" -> "SE|Fuel|Hydrogen"
          [] l = "biomethane" -> "SE|Fuel|Biomethane"]

FuelEffAliases == [l \in {"diesel"} |-> "Eff|Fuel|Diesel"]

CementIamAliases == [l \in {"cement"} |-> "Production|Cement"]

CementEffAliases == [l \in {"cement"} |-> "SpecEnergy|Cement"]

CementEnergyAliases == [l \in {"cement"} |-> {"FE|Cement|Heat", "FE|Cement|Elec"}]

SteelIamAliases ==
    [l \in {"steel - primary", "steel - secondary"} |->
        IF l = "steel - primary" THEN "Production|Steel|Primary"
        ELSE "Production|Steel|Secondary"]

SteelEffAliases ==
    [l \in {"steel - primary", "steel - secondary"} |->
        IF l = "steel - primary" THEN "SpecEnergy|Steel|Primary"
        ELSE "SpecEnergy|Steel|Secondary"]

SteelEnergyAliases ==
    [l \in {"steel - primary", "steel - secondary"} |->
        IF l = "steel - primary" THEN {"FE|Steel|Primary"}
        ELSE {"FE|Steel|Secondary"}]

BiomassIamAliases == [l \in {"biomass - residual"} |-> "PE|Biomass|Residues"]

CarbonCaptureAliases ==
    [l \in {"cement - cco2", "cement - co2", "steel - cco2", "steel - co2"} |->
        CASE l = "cement - cco2" -> "Emi|CCO2|Cement"
          [] l = "cement - co2" -> "Emi|CO2|Cement"
          [] l = "steel - cco2" -> "Emi|CCO2|Steel"
          [] l = "steel - co2" -> "Emi|CO2|Steel"]

\* the empty mapping
NoAliases == [l \in {} |-> ""]

\* __get_iam_variable_labels(filepath, key): `catalogue` says which alias kinds
\* the cement and steel files give for the model: "eff" (eff_aliases) or
\* "energy" (energy_use_aliases)
get_iam_variable_labels(topic, key, catalogue) ==
    CASE topic = "electricity" /\ key = "iam_aliases" -> ElecIamAliases
      [] topic = "electricity" /\ key = "eff_aliases" -> ElecEffAliases
      [] topic = "electricity" /\ key = "gains_aliases" -> ElecGainsAliases
      [] topic = "fuels" /\ key = "iam_aliases" -> FuelIamAliases
      [] topic = "fuels" /\ key = "eff_aliases" -> FuelEffAliases
      [] topic = "cement" /\ key = "iam_aliases" -> CementIamAliases
      [] topic = "cement" /\ key = "eff_aliases" ->
            IF catalogue = "eff" THEN CementEffAliases ELSE NoAliases
      [] topic = "cement" /\ key = "energy_use_aliases" ->
            IF catalogue = "energy" THEN CementEnergyAliases ELSE NoAliases
      [] topic = "steel" /\ key = "iam_aliases" -> SteelIamAliases
      [] topic = "steel" /\ key = "eff_aliases" ->
            IF catalogue = "eff" THEN SteelEffAliases ELSE NoAliases
      [] topic = "steel" /\ key = "energy_use_aliases" ->
            IF catalogue = "energy" THEN SteelEnergyAliases ELSE NoAliases
      [] topic = "biomass" /\ key = "iam_aliases" -> BiomassIamAliases
      [] topic = "carbon capture" /\ key = "iam_aliases" -> CarbonCaptureAliases
      [] OTHER -> NoAliases

\* the values of a mapping (list(labels.values()))
Values(labels) == {labels[l] : l \in DOMAIN labels}

\* ------------------------------------------------------------------------
\* Labelled cubes
\* ------------------------------------------------------------------------

\* reference year of the efficiency and emission ratios
RefYear == 2020

\* the (sorted) coordinates of a year axis as a sequence
RECURSIVE SortedYears(_)
SortedYears(S) ==
    IF S = {} THEN << >>
    ELSE LET m == SetMin(S) IN <<m>> \o SortedYears(S \ {m})

\* DataArray.interp(year=x) of the series f over the years xs, as xarray does it
\* with scipy's interp1d (kind linear, bounds_error False, fill_value NaN):
\*   i = clip(searchsorted(xs, x), 1, len(xs) - 1)
\*   slope = (f[xs[i]] - f[xs[i-1]]) / (xs[i] - xs[i-1])
\*   result = slope * (x - xs[i-1]) + f[xs[i-1]]
Interp(f, xs, x) ==
    IF x < SetMin(xs) \/ x > SetMax(xs) THEN NaN
    ELSE LET ys == SortedYears(xs)
             below == Cardinality({y \in xs : y < x})
             i == IF below < 1 THEN 1
                  ELSE IF below > Len(ys) - 1 THEN Len(ys) - 1 ELSE below
             xlo == ys[i]
             xhi == ys[i + 1]
             slope == Div(Sub(f[xhi], f[xlo]), Num(xhi - xlo))
         IN Add(Mul(slope, Num(x - xlo)), f[xlo])

\* ------------------------------------------------------------------------
\* State
\* ------------------------------------------------------------------------

VARIABLES
    year,              \* self.year
    system_model,      \* self.system_model
    time_horizon,      \* self.time_horizon
    catalogue,         \* alias kinds the cement and steel catalogues give
    data,              \* the raw scenario cube (region, variables, year)
    gains_data,        \* the emission factor cube (region, pollutant, sector, year)
    loaded,            \* the values of the raw cube as read from the file
    electricity_markets,
    fuel_markets,
    production_volumes,
    carbon_capture_rate,
    ratios,            \* the locals of __init__: electricity_efficiencies, ...
    efficiency,
    emissions,
    printed,           \* what the market derivations printed, per region
    raised,            \* the exception that ended the construction
    failed_at,         \* the statement of __init__ the exception came from
    pc,                \* the next statement of __init__
    database,          \* BaseTransformation: self.database, a list of datasets
    list_datasets,     \* self.list_datasets: (name, reference product, location)
    cache,             \* self.cache[location][exchange]
    ecoinvent_to_iam_loc,
    self_regions,      \* self.regions, in the order of the scenario cube
    d_act,             \* what the last fetch_proxies returned
    before,            \* self.database when the last call started
    call,              \* the last call and its arguments
    relink_printed,    \* the exchanges relink_datasets found no provider for
    graph_raised,      \* the exception that ended a call
    calls,             \* number of calls made on the object
    gpc,               \* where the caller of the transformation stands
    ds_list,           \* the argument of get_shares_from_production_volume
    dict_act,          \* what get_shares_from_production_volume returned
    datasets_given,    \* the argument of remove_exchanges as it was given
    datasets_dict,     \* the argument of remove_exchanges, which it returns
    list_exc,          \* the terms given to remove_exchanges
    fpc,               \* where the caller of the two functions stands
    capture_call,      \* the arguments of get_carbon_capture_energy_inputs
    capture_returned,  \* what get_carbon_capture_energy_inputs returned
    fleet_call,        \* the arguments of create_fleet_vehicles
    list_act,          \* what create_fleet_vehicles returned
    mpc                \* where the caller of these two stands

\* the scenario data collection
dvars == <<year, system_model, time_horizon, catalogue, data, gains_data, loaded,
           electricity_markets, fuel_markets, production_volumes,
           carbon_capture_rate, ratios, efficiency, emissions, printed, raised,
           failed_at, pc>>

\* the transformation of the database
gvars == <<database, list_datasets, cache, ecoinvent_to_iam_loc, self_regions, d_act,
           before, call, relink_printed, graph_raised, calls, gpc>>

\* the module-level functions of transformation.py
fvars == <<ds_list, dict_act, datasets_given, datasets_dict, list_exc, fpc>>

\* Steel.get_carbon_capture_energy_inputs and transport.create_fleet_vehicles
mvars == <<capture_call, capture_returned, fleet_call, list_act, mpc>>

vars == <<dvars, gvars, fvars, mvars>>

\* a value not yet assigned
None == "none"

One == Num(1)

Zero == Num(0)

\* the outcome of a call: a returned value or a raised exception
Return(v) == [exc |-> "none", val |-> v]

Raise(e) == [exc |-> e, val |-> None]

\* data.loc[region, variable, :] as a series of floats over the year axis
Series(d, r, v) == [y \in d.year |-> Num(d.v[<<r, v, y>>])]

\* `self.year < data.year.values.min() or self.year > data.year.values.max()`
OutOfRange(yr, years) == yr < SetMin(years) \/ yr > SetMax(years)

\* The correction every ratio derivation applies after the division:
\*   if self.year > 2020: values[values < 1] = 1
\*   if self.year < 2020: values[values > 1] = 1
\*   fillna(1)
\* a variant of CorrectRatio without the two assignments of 1
FillOnly(a, yr) == FillNa(a, One)

CorrectRatio(a, yr) ==
    LET up == IF yr > RefYear /\ Lt(a, One) THEN One ELSE a
        down == IF yr < RefYear /\ Gt(up, One) THEN One ELSE up
    IN FillNa(down, One)

\* a variant of ClipRatio that leaves the ratio as it is
NoClip(a) == a

\* np.clip(ratio, 0.5, 2)
ClipRatio(a) == Clip(a, Fin(1, 2), Num(2))

\* a variant of RatioToRef that takes the row of the tabulated year before yr
\* instead of interpolating
PreviousRowRatio(f, years, yr) ==
    Div(f[SetMax({y \in years : y <= yr})], f[RefYear])

\* series.interp(year=yr) / series.sel(year=2020)
RatioToRef(f, years, yr) == Div(Interp(f, years, yr), f[RefYear])

\* ------------------------------------------------------------------------
\* Efficiency ratios
\* ------------------------------------------------------------------------

\* the labels whose variable is in the list `techs`
LabelsOf(labels, techs) == {l \in DOMAIN labels : labels[l] \in techs}

\* __get_iam_electricity_efficiencies
get_iam_electricity_efficiencies(d, yr, cat) ==
    LET labels == get_iam_variable_labels("electricity", "eff_aliases", cat)
        list_technologies == Values(labels)
        available_vars == list_technologies \cap d.variables
    IN IF OutOfRange(yr, d.year) THEN Raise("KeyError")
       ELSE IF available_vars = {} THEN Raise("SystemExit")
       ELSE IF RefYear \notin d.year THEN Raise("KeyError")
       ELSE Return([c \in d.region \X LabelsOf(labels, available_vars) |->
                CorrectRatio(RatioToRef(Series(d, c[1], labels[c[2]]), d.year, yr), yr)])

\* __get_iam_fuel_efficiencies
get_iam_fuel_efficiencies(d, yr, cat) ==
    LET labels == get_iam_variable_labels("fuels", "eff_aliases", cat)
        list_technologies == Values(labels)
        available_vars == list_technologies \cap d.variables
    IN IF OutOfRange(yr, d.year) THEN Raise("KeyError")
       ELSE IF available_vars = {} THEN Raise("SystemExit")
       ELSE IF RefYear \notin d.year THEN Raise("KeyError")
       ELSE Return([c \in d.region \X LabelsOf(labels, available_vars) |->
                ClipRatio(CorrectRatio(
                    RatioToRef(Series(d, c[1], labels[c[2]]), d.year, yr), yr))])

\* xr.ones_like(data).sel(variables=[var[0]]) for one region
OnesSeries(d) == [y \in d.year |-> One]

\* 1 / data.loc[region, [v], :]
InverseSeries(d, r, v) == [y \in d.year |-> Div(One, Num(d.v[<<r, v, y>>]))]

\* 1 / (data.loc[region, energy, :].sum(dim="variables") / data.loc[region, [prod], :])
EnergyIntensitySeries(d, r, energy, prod) ==
    [y \in d.year |->
        Div(One, Div(SumSkipNa(energy, [v \in energy |-> Num(d.v[<<r, v, y>>])]),
                     Num(d.v[<<r, prod, y>>])))]

\* __get_iam_cement_efficiencies
get_iam_cement_efficiencies(d, yr, cat) ==
    LET eff == get_iam_variable_labels("cement", "eff_aliases", cat)
        prod == get_iam_variable_labels("cement", "iam_aliases", cat)
        energy == get_iam_variable_labels("cement", "energy_use_aliases", cat)
        base(r) ==
            IF DOMAIN eff # {}
            THEN (IF eff["cement"] \in d.variables
                  THEN InverseSeries(d, r, eff["cement"])
                  ELSE OnesSeries(d))
            ELSE (IF energy["cement"] \subseteq d.variables /\ prod["cement"] \in d.variables
                  THEN EnergyIntensitySeries(d, r, energy["cement"], prod["cement"])
                  ELSE OnesSeries(d))
    IN IF OutOfRange(yr, d.year) THEN Raise("KeyError")
       ELSE IF DOMAIN eff = {} /\ ("cement" \notin DOMAIN prod \/ "cement" \notin DOMAIN energy)
            THEN Raise("KeyError")
       ELSE IF RefYear \notin d.year THEN Raise("KeyError")
       ELSE Return([c \in d.region \X {"cement"} |->
                ClipRatio(CorrectRatio(RatioToRef(base(c[1]), d.year, yr), yr))])

\* one pathway ("steel - primary" or "steel - secondary") of
\* __get_iam_steel_efficiencies raises KeyError: the energy variables are
\* selected without a test that they are in the cube
SteelPathwayRaises(d, pathway, cat) ==
    LET eff == get_iam_variable_labels("steel", "eff_aliases", cat)
        prod == get_iam_variable_labels("steel", "iam_aliases", cat)
        energy == get_iam_variable_labels("steel", "energy_use_aliases", cat)
    IN /\ DOMAIN eff = {}
       /\ prod[pathway] \in d.variables
       /\ ~(energy[pathway] \subseteq d.variables)

\* the series of one pathway for region r, before the division by its 2020 value
SteelPathway(d, r, pathway, cat) ==
    LET eff == get_iam_variable_labels("steel", "eff_aliases", cat)
        prod == get_iam_variable_labels("steel", "iam_aliases", cat)
        energy == get_iam_variable_labels("steel", "energy_use_aliases", cat)
    IN IF DOMAIN eff # {}
       THEN (IF eff[pathway] \in d.variables
             THEN InverseSeries(d, r, eff[pathway])
             ELSE OnesSeries(d))
       ELSE (IF prod[pathway] \in d.variables
             THEN EnergyIntensitySeries(d, r, energy[pathway], prod[pathway])
             ELSE OnesSeries(d))

\* __get_iam_steel_efficiencies
get_iam_steel_efficiencies(d, yr, cat) ==
    LET pathways == {"steel - primary", "steel - secondary"}
    IN IF OutOfRange(yr, d.year) THEN Raise("KeyError")
       ELSE IF \E p \in pathways : SteelPathwayRaises(d, p, cat) THEN Raise("KeyError")
       ELSE IF RefYear \notin d.year THEN Raise("KeyError")
       ELSE Return([c \in d.region \X pathways |->
                ClipRatio(CorrectRatio(
                    RatioToRef(SteelPathway(d, c[1], c[2], cat), d.year, yr), yr))])

\* ------------------------------------------------------------------------
\* Emission ratios (GAINS)
\* ------------------------------------------------------------------------

\* data.loc[region, pollutant, sector, :] as a series over the year axis
GainsSeries(g, r, p, s) == [y \in g.year |-> Num(g.v[<<r, p, s, y>>])]

\* 1 / (series.interp(year=yr) / series.sel(year=2020)), then the correction
GainsRatio(g, r, p, s, yr) ==
    CorrectRatio(Div(One, RatioToRef(GainsSeries(g, r, p, s), g.year, yr)), yr)

\* __get_gains_electricity_emissions
get_gains_electricity_emissions(g, yr, cat) ==
    LET labels == get_iam_variable_labels("electricity", "gains_aliases", cat)
    IN IF OutOfRange(yr, g.year) THEN Raise("KeyError")
       ELSE IF ~(Values(labels) \subseteq g.sector) THEN Raise("KeyError")
       ELSE IF RefYear \notin g.year THEN Raise("KeyError")
       ELSE Return([c \in g.region \X g.pollutant \X DOMAIN labels |->
                GainsRatio(g, c[1], c[2], labels[c[3]], yr)])

\* __get_gains_cement_emissions
get_gains_cement_emissions(g, yr) ==
    IF OutOfRange(yr, g.year) THEN Raise("KeyError")
    ELSE IF "CEMENT" \notin g.sector THEN Raise("KeyError")
    ELSE IF RefYear \notin g.year THEN Raise("KeyError")
    ELSE Return([c \in g.region \X g.pollutant \X {"cement"} |->
             GainsRatio(g, c[1], c[2], "CEMENT", yr)])

\* __get_gains_steel_emissions
get_gains_steel_emissions(g, yr) ==
    IF OutOfRange(yr, g.year) THEN Raise("KeyError")
    ELSE IF "STEEL" \notin g.sector THEN Raise("KeyError")
    ELSE IF RefYear \notin g.year THEN Raise("KeyError")
    ELSE Return([c \in g.region \X g.pollutant \X {"steel"} |->
             GainsRatio(g, c[1], c[2], "STEEL", yr)])

\* ------------------------------------------------------------------------
\* Market shares
\* ------------------------------------------------------------------------

\* lifetimes.csv: technology lifetimes in years, read by get_lifetime
Lifetimes ==
    [l \in {"Coal", "Wind", "Gas CHP", "diesel", "hydrogen", "biomethane"} |->
        CASE l = "Coal" -> 40
          [] l = "Wind" -> 25
          [] l = "Gas CHP" -> 30
          [] l = "diesel" -> 40
          [] l = "hydrogen" -> 20
          [] l = "biomethane" -> 25]

\* get_lifetime(list_tech)
get_lifetime(l) == Num(Lifetimes[l])

\* floor of the rational n/d, d > 0
FloorDiv(n, d) == IF n >= 0 THEN n \div d ELSE -((-n + d - 1) \div d)

\* numpy round(3): the nearest multiple of 1/1000, ties to the even one
Round3(a) ==
    IF ~IsFin(a) THEN a
    ELSE LET num == 1000 * a.n
             fl == FloorDiv(num, a.d)
             twice == 2 * (num - fl * a.d)
             q == IF twice < a.d THEN fl
                  ELSE IF twice > a.d THEN fl + 1
                  ELSE IF fl % 2 = 0 THEN fl ELSE fl + 1
         IN Fin(q, 1000)

\* the technologies __transform_to_marginal_markets sets to zero:
\* any(x in v for x in ["CHP", "biomethane"])
TechToIgnore(techs) ==
    {l \in techs : StrContains("CHP", l) \/ StrContains("biomethane", l)}

\* a variant of AvgCapReplRate with the sign of the rate reversed
PositiveReplRate(m, techs, yr) ==
    Div(One, SumOver(techs, [l \in techs |->
        Mul(Div(m[l][yr], SumSkipNa(techs, [x \in techs |-> m[x][yr]])),
            get_lifetime(l))]))

\* the cube handed to __transform_to_marginal_markets, for one region:
\* m[l][y] is the value of technology l in year y
\* avg_cap_repl_rate = -1 / sum(current_shares * lifetime)
AvgCapReplRate(m, techs, yr) ==
    LET total == SumSkipNa(techs, [l \in techs |-> m[l][yr]])
        current_shares == [l \in techs |-> Div(m[l][yr], total)]
        avg_lifetime == SumOver(techs, [l \in techs |->
                            Mul(current_shares[l], get_lifetime(l))])
    IN Div(Num(-1), avg_lifetime)

\* volume_change = sum(data).interp(year + time_horizon) / sum(data).interp(year) - 1
VolumeChange(m, techs, years, yr, h) ==
    LET total == [y \in years |-> SumSkipNa(techs, [l \in techs |-> m[l][y]])]
    IN Sub(Div(Interp(total, years, yr + h), Interp(total, years, yr)), One)

\* the growth of one technology after rounding and the removal of inf and NaN,
\* plus its capital replacement rate (market_shares += cap_repl_rate)
NetGrowth(series, years, yr, h, l) ==
    LET growth == Sub(Div(Interp(series, years, yr + h), Interp(series, years, yr)), One)
        rounded == Round3(growth)
        noinf == IF rounded = PInf THEN Zero ELSE rounded
        nonan == FillNa(noinf, Zero)
        cap_repl_rate == Div(Num(-1), get_lifetime(l))
    IN Add(nonan, cap_repl_rate)

\* `if volume_change < avg_cap_repl_rate` : "decrease", else "increase"
MarginalBranch(volume_change, avg_cap_repl_rate) ==
    IF Lt(volume_change, avg_cap_repl_rate) THEN "decrease" ELSE "increase"

\* data.loc[dict(variables=[CHP and biomethane], region=region)] = 0
ZeroIgnored(m, techs, years) ==
    [l \in techs |-> IF l \in TechToIgnore(techs) THEN [y \in years |-> Zero] ELSE m[l]]

NetGrowths(z, techs, years, yr, h) ==
    [l \in techs |-> NetGrowth(z[l], years, yr, h, l)]

\* "decrease": values > 0 are set to 0 and the sign is reversed;
\* "increase": values < 0 are set to 0
KeepBySign(net, branch, techs) ==
    [l \in techs |->
        IF branch = "decrease"
        THEN Neg(IF Gt(net[l], Zero) THEN Zero ELSE net[l])
        ELSE (IF Lt(net[l], Zero) THEN Zero ELSE net[l])]

\* market_shares /= market_shares.sum(dim="variables")
Normalise(f, techs) == [l \in techs |-> Div(f[l], SumSkipNa(techs, f))]

\* market_shares *= data.sel(region=region, year=self.year)
WeightByVolume(f, z, techs, yr) == [l \in techs |-> Mul(f[l], z[l][yr])]

\* the shares of one region from its rows z (CHP and biomethane set to zero)
\* and the branch taken
SharesOfBranch(z, branch, techs, years, yr, h) ==
    Normalise(
        WeightByVolume(
            Normalise(KeepBySign(NetGrowths(z, techs, years, yr, h), branch, techs), techs),
            z, techs, yr),
        techs)

\* one turn of the loop over the regions: m holds the rows of the region
RegionMarginal(m, branch, techs, years, yr, h) ==
    [shares |-> SharesOfBranch(ZeroIgnored(m, techs, years), branch, techs, years, yr, h),
     printed |-> branch]

\* the returned cube and what was printed, from the outcome of each region
AssembleMarginal(per, regions, techs) ==
    [shares |-> [c \in regions \X techs |-> per[c[1]].shares[c[2]]],
     printed |-> [r \in regions |-> per[r].printed]]

\* the rows of one region of a cube: rows[l][y]
Rows(cube, r, techs, years) == [l \in techs |-> [y \in years |-> cube[<<r, l, y>>]]]

\* __transform_to_marginal_markets(data): cube[<<region, label, year>>] -> value
\* returns the shares over (region, label) for the year self.year and what
\* was printed for each region
transform_to_marginal_markets(cube, regions, techs, years, yr, h) ==
    IF yr \notin years THEN Raise("KeyError")
    ELSE IF ~(techs \subseteq DOMAIN Lifetimes) THEN Raise("KeyError")
    ELSE Return(AssembleMarginal(
            [r \in regions |->
                RegionMarginal(
                    Rows(cube, r, techs, years),
                    MarginalBranch(
                        VolumeChange(Rows(cube, r, techs, years), techs, years, yr, h),
                        AvgCapReplRate(Rows(cube, r, techs, years), techs, yr)),
                    techs, years, yr, h)],
            regions, techs))

\* data.loc[:, list_technologies, :] with the premise labels as coordinates
Relabelled(d, labels, techs) ==
    [c \in d.region \X LabelsOf(labels, techs) \X d.year |->
        Num(d.v[<<c[1], labels[c[2]], c[3]>>])]

\* a variant of SharesOfTotal that divides by the sum over all regions
SharesOfGrandTotal(cube, regions, techs, years) ==
    [c \in regions \X techs \X years |->
        Div(cube[c], SumSkipNa(regions \X techs,
                               [x \in regions \X techs |-> cube[<<x[1], x[2], c[3]>>]]))]

\* data_to_return /= data.loc[:, list, :].groupby("region").sum(dim="variables")
SharesOfTotal(cube, regions, techs, years) ==
    [c \in regions \X techs \X years |->
        Div(cube[c], SumSkipNa(techs, [l \in techs |-> cube[<<c[1], l, c[3]>>]]))]

\* __get_iam_electricity_markets
get_iam_electricity_markets(d, yr, mode, h, cat) ==
    LET labels == get_iam_variable_labels("electricity", "iam_aliases", cat)
        list_technologies == Values(labels) \cap d.variables
        list_vars == LabelsOf(labels, list_technologies)
    IN IF OutOfRange(yr, d.year) THEN Raise("KeyError")
       ELSE IF list_technologies = {} THEN Raise("SystemExit")
       ELSE IF mode = "consequential"
            THEN transform_to_marginal_markets(
                    Relabelled(d, labels, list_technologies), d.region, list_vars,
                    d.year, yr, h)
       ELSE Return([shares |-> SharesOfTotal(Relabelled(d, labels, list_technologies),
                                             d.region, list_vars, d.year),
                    printed |-> [r \in d.region |-> None]])

\* the first statement of __get_iam_fuel_markets after the range check:
\*   data.loc[World, list_technologies] = data.loc[non-World, list_technologies].sum("region")
\* It raises KeyError, leaving the cube as it is, when a technology is not in
\* the cube.  Returns the cube after the statement.
FixWorld(d, list_technologies) ==
    IF ~(list_technologies \subseteq d.variables) \/ "World" \notin d.region
    THEN d
    ELSE [d EXCEPT !.v =
            [c \in DOMAIN d.v |->
                IF c[1] = "World" /\ c[2] \in list_technologies
                THEN LET others == d.region \ {"World"}
                     IN SumSkipNa(others, [r \in others |-> Num(d.v[<<r, c[2], c[3]>>])]).n
                ELSE d.v[c]]]

\* the outcome r of a derivation together with the raw cube as it leaves it
WithData(r, cube) ==
    IF r.exc # "none"
    THEN [exc |-> r.exc, val |-> [data |-> cube]]
    ELSE Return([shares |-> r.val.shares, printed |-> r.val.printed, data |-> cube])

\* data_to_return.interp(year) / data.loc[:, list, :].interp(year).sum("variables")
InterpolatedShares(cube, regions, techs, years, yr) ==
    [c \in regions \X techs |->
        Div(Interp([y \in years |-> cube[<<c[1], c[2], y>>]], years, yr),
            SumSkipNa(techs, [l \in techs |->
                Interp([y \in years |-> cube[<<c[1], l, y>>]], years, yr)]))]

\* __get_iam_fuel_markets: returns the shares and the raw cube as it leaves it
get_iam_fuel_markets(d, yr, mode, h, cat) ==
    LET labels == get_iam_variable_labels("fuels", "iam_aliases", cat)
        list_technologies == Values(labels) \cap d.variables
        list_vars == LabelsOf(labels, list_technologies)
    IN IF OutOfRange(yr, d.year) THEN WithData(Raise("KeyError"), d)
       ELSE IF list_technologies = {} THEN WithData(Raise("SystemExit"), d)
       ELSE IF mode = "consequential"
            THEN WithData(
                    transform_to_marginal_markets(
                        Relabelled(FixWorld(d, Values(labels)), labels, list_technologies),
                        d.region, list_vars, d.year, yr, h),
                    FixWorld(d, Values(labels)))
       ELSE WithData(
               Return([shares |-> InterpolatedShares(
                                     Relabelled(FixWorld(d, Values(labels)), labels,
                                                list_technologies),
                                     d.region, list_vars, d.year, yr),
                       printed |-> [r \in d.region |-> None]]),
               FixWorld(d, Values(labels)))

\* a variant of get_iam_production_volumes that does not go on with the
\* remaining variables when one is not in the file
StrictProductionVolumes(dict_products, d, yr) ==
    IF OutOfRange(yr, d.year) \/ ~(Values(dict_products) \subseteq d.variables)
    THEN Raise("KeyError")
    ELSE Return(Relabelled(d, dict_products, Values(dict_products)))

\* __get_iam_production_volumes(dict_products, data)
get_iam_production_volumes(dict_products, d, yr) ==
    LET list_products == Values(dict_products) \cap d.variables
    IN IF OutOfRange(yr, d.year) THEN Raise("KeyError")
       ELSE IF list_products = {} THEN Raise("SystemExit")
       ELSE Return(Relabelled(d, dict_products, list_products))

\* the update of two mappings (dict.update)
Update(a, b) == [k \in DOMAIN a \cup DOMAIN b |-> IF k \in DOMAIN b THEN b[k] ELSE a[k]]

\* prod_vars of __init__
ProdVars(cat) ==
    Update(Update(Update(Update(
        get_iam_variable_labels("electricity", "iam_aliases", cat),
        get_iam_variable_labels("fuels", "iam_aliases", cat)),
        get_iam_variable_labels("cement", "iam_aliases", cat)),
        get_iam_variable_labels("steel", "iam_aliases", cat)),
        get_iam_variable_labels("biomass", "iam_aliases", cat))

\* ------------------------------------------------------------------------
\* Carbon capture rate
\* ------------------------------------------------------------------------

\* captured / (vented + captured) for one region and year, then fillna(0)
RegionCaptureRate(d, r, y, cco2, co2) ==
    FillNa(Div(Num(d.v[<<r, cco2, y>>]),
               SumSkipNa({co2, cco2}, [v \in {co2, cco2} |-> Num(d.v[<<r, v, y>>])])),
           Zero)

\* a variant of WorldCaptureRate that keeps the rate of the World rows
RawWorldRate(d, regions, y, cco2, co2) == RegionCaptureRate(d, "World", y, cco2, co2)

\* the value written to rate.loc[World, sector] for one year: the captured CO2
\* of the regions other than World over their vented and captured CO2
WorldCaptureRate(d, regions, y, cco2, co2) ==
    LET others == regions \ {"World"}
        cells == others \X {co2, cco2}
    IN Div(SumSkipNa(others, [r \in others |-> Num(d.v[<<r, cco2, y>>])]),
           SumSkipNa(cells, [c \in cells |-> Num(d.v[<<c[1], c[2], y>>])]))

\* __get_carbon_capture_rate(dict_vars, data); regions is self.regions
get_carbon_capture_rate(dict_vars, d, regions, yr) ==
    LET needed == {"cement - cco2", "cement - co2", "steel - cco2", "steel - co2"}
        cco2(s) == IF s = "cement" THEN dict_vars["cement - cco2"]
                   ELSE dict_vars["steel - cco2"]
        co2(s) == IF s = "cement" THEN dict_vars["cement - co2"]
                  ELSE dict_vars["steel - co2"]
        rate(r, s) ==
            [y \in d.year |->
                Clip(IF r = "World"
                     THEN WorldCaptureRate(d, regions, y, cco2(s), co2(s))
                     ELSE RegionCaptureRate(d, r, y, cco2(s), co2(s)),
                     Zero, One)]
    IN IF OutOfRange(yr, d.year) THEN Raise("KeyError")
       ELSE IF ~(needed \subseteq DOMAIN dict_vars) THEN Raise("KeyError")
       ELSE IF ~({dict_vars[k] : k \in needed} \subseteq d.variables) THEN Raise("KeyError")
       ELSE IF "World" \notin d.region THEN Raise("KeyError")
       ELSE Return([c \in d.region \X {"cement", "steel"} |->
                       Interp(rate(c[1], c[2]), d.year, yr)])

\* ------------------------------------------------------------------------
\* The inputs of a construction
\* ------------------------------------------------------------------------

Regions == {"World", "R1", "R2"}

\* the tabulated years of the IAM file and of the GAINS file
TabYears == {2010, 2020, 2030}

\* the years a database is requested for
Years == {2005, 2010, 2015, 2020, 2025, 2030, 2035}

TimeHorizons == {10}

RawVariables ==
    Values(ElecIamAliases) \cup Values(ElecEffAliases) \cup Values(FuelIamAliases)
    \cup Values(FuelEffAliases) \cup Values(CementIamAliases)
    \cup Values(CementEffAliases) \cup UNION Values(CementEnergyAliases)
    \cup Values(SteelIamAliases) \cup Values(SteelEffAliases)
    \cup UNION Values(SteelEnergyAliases) \cup Values(BiomassIamAliases)
    \cup Values(CarbonCaptureAliases)

GainsRegions == {"G1"}

Pollutants == {"NOx"}

Sectors == {"Power_Gen_Coal", "CEMENT", "STEEL"}

\* Every cell of a cube holds 1 but the cells of one family, which range over
\* 0..MaxVal.  The families, and the cells each varies:
Focuses ==
    {"elec_market", "fuel_market", "capture_cement", "capture_steel", "elec_eff",
     "fuel_eff", "cement_eff", "cement_energy", "steel_eff", "steel_energy",
     "gains_elec", "gains_cement", "gains_steel", "absent"}

VariedCells(focus) ==
    CASE focus = "elec_market" ->
            {<<"R1", "SE|Elec|Coal", 2020>>, <<"R1", "SE|Elec|Coal", 2030>>,
             <<"R1", "SE|Elec|Wind", 2020>>}
      [] focus = "fuel_market" ->
            {"World", "R1", "R2"} \X {"SE|Fuel|Diesel"} \X {2020}
      [] focus = "capture_cement" ->
            {<<"R1", "Emi|CCO2|Cement", 2020>>, <<"R1", "Emi|CO2|Cement", 2020>>,
             <<"R2", "Emi|CCO2|Cement", 2020>>, <<"World", "Emi|CCO2|Cement", 2020>>}
      [] focus = "capture_steel" ->
            {"R1", "R2"} \X {"Emi|CCO2|Steel", "Emi|CO2|Steel"} \X {2020}
      [] focus = "elec_eff" -> {"R1"} \X {"Eff|Elec|Coal"} \X TabYears
      [] focus = "fuel_eff" -> {"R1"} \X {"Eff|Fuel|Diesel"} \X TabYears
      [] focus = "cement_eff" -> {"R1"} \X {"SpecEnergy|Cement"} \X TabYears
      [] focus = "cement_energy" ->
            {<<"R1", "FE|Cement|Heat", 2020>>, <<"R1", "FE|Cement|Heat", 2030>>,
             <<"R1", "Production|Cement", 2020>>}
      [] focus = "steel_eff" -> {"R1"} \X {"SpecEnergy|Steel|Primary"} \X TabYears
      [] focus = "steel_energy" ->
            {<<"R1", "FE|Steel|Secondary", 2010>>, <<"R1", "FE|Steel|Secondary", 2020>>,
             <<"R1", "Production|Steel|Secondary", 2020>>}
      [] OTHER -> {}

VariedGainsCells(focus) ==
    CASE focus = "gains_elec" -> {"G1"} \X {"NOx"} \X {"Power_Gen_Coal"} \X TabYears
      [] focus = "gains_cement" -> {"G1"} \X {"NOx"} \X {"CEMENT"} \X TabYears
      [] focus = "gains_steel" -> {"G1"} \X {"NOx"} \X {"STEEL"} \X TabYears
      [] OTHER -> {}

\* the variables a file may lack
AbsentChoices(focus) ==
    CASE focus = "absent" ->
            {{"SE|Elec|Wind"}, {"SE|Fuel|Biomethane"}, {"SpecEnergy|Cement"},
             {"SpecEnergy|Steel|Primary"}, {"Production|Steel|Secondary"},
             {"FE|Steel|Primary"}, {"Eff|Elec|Coal"}, {"Emi|CO2|Steel"},
             Values(FuelIamAliases), Values(ElecIamAliases),
             {"PE|Biomass|Residues", "Production|Cement"}}
      [] focus = "fuel_market" -> {{}, {"SE|Fuel|Biomethane"}, Values(FuelIamAliases)}
      [] focus = "elec_market" -> {{}, {"SE|Elec|GasCHP"}, Values(ElecIamAliases)}
      [] OTHER -> {{}}

CatalogueChoices(focus) ==
    CASE focus \in {"cement_energy", "steel_energy"} -> {"energy"}
      [] focus = "absent" -> {"eff", "energy"}
      [] OTHER -> {"eff"}

ModeChoices(focus) ==
    IF focus \in {"elec_market", "fuel_market", "absent"}
    THEN {"attributional", "consequential"}
    ELSE {"attributional"}

\* the years asked for
YearChoices(focus) ==
    CASE focus \in {"elec_market", "fuel_market"} -> Years \ {2010, 2025}
      [] focus \in {"capture_cement", "capture_steel"} -> Years \ {2010, 2025, 2035}
      [] OTHER -> Years

\* the raw cube of a file: f gives the varied cells, `absent` the variables
\* the file lacks
RawCube(f, absent) ==
    [region |-> Regions,
     variables |-> RawVariables \ absent,
     year |-> TabYears,
     v |-> [c \in Regions \X (RawVariables \ absent) \X TabYears |->
               IF c \in DOMAIN f THEN f[c] ELSE 1]]

GainsCube(f) ==
    [region |-> GainsRegions,
     pollutant |-> Pollutants,
     sector |-> Sectors,
     year |-> TabYears,
     v |-> [c \in GainsRegions \X Pollutants \X Sectors \X TabYears |->
               IF c \in DOMAIN f THEN f[c] ELSE 1]]

NoRatios ==
    [electricity_efficiencies |-> None, electricity_emissions |-> None,
     cement_emissions |-> None, cement_efficiencies |-> None,
     steel_emissions |-> None, steel_efficiencies |-> None,
     fuel_efficiencies |-> None]

\* neither of the two functions is under study
NoFunctionCall ==
    /\ ds_list = << >>
    /\ dict_act = None
    /\ datasets_given = << >>
    /\ datasets_dict = << >>
    /\ list_exc = << >>
    /\ fpc = "none"

\* neither get_carbon_capture_energy_inputs nor create_fleet_vehicles is
\* under study
NoMethodCall ==
    /\ capture_call = None
    /\ capture_returned = None
    /\ fleet_call = None
    /\ list_act = None
    /\ mpc = "none"

\* IAMDataCollection.__init__ up to the first derivation
InitOf(focuses) ==
    \E focus \in focuses :
      \E f \in [VariedCells(focus) -> 0..MaxVal],
         g \in [VariedGainsCells(focus) -> 0..MaxVal],
         absent \in AbsentChoices(focus),
         cat \in CatalogueChoices(focus),
         mode \in ModeChoices(focus),
         yr \in YearChoices(focus),
         h \in TimeHorizons :
        /\ year = yr
        /\ system_model = mode
        /\ time_horizon = h
        /\ catalogue = cat
        /\ data = RawCube(f, absent)
        /\ loaded = RawCube(f, absent).v
        /\ gains_data = GainsCube(g)
        /\ electricity_markets = None
        /\ fuel_markets = None
        /\ production_volumes = None
        /\ carbon_capture_rate = None
        /\ ratios = NoRatios
        /\ efficiency = None
        /\ emissions = None
        /\ printed = [electricity |-> None, fuels |-> None]
        /\ raised = "none"
        /\ failed_at = "none"
        /\ pc = "electricity_markets"
        /\ database = << >>
        /\ list_datasets = {}
        /\ cache = << >>
        /\ ecoinvent_to_iam_loc = << >>
        /\ self_regions = << >>
        /\ d_act = None
        /\ before = << >>
        /\ call = None
        /\ relink_printed = {}
        /\ graph_raised = "none"
        /\ calls = 0
        /\ gpc = "none"
        /\ NoFunctionCall
        /\ NoMethodCall

MarketFocuses == {"elec_market", "fuel_market"}
CaptureFocuses == {"capture_cement", "capture_steel"}
RatioFocuses ==
    {"elec_eff", "fuel_eff", "cement_eff", "cement_energy", "steel_eff",
     "steel_energy", "gains_elec", "gains_cement", "gains_steel"}

InitMarkets == InitOf(MarketFocuses)
InitCapture == InitOf(CaptureFocuses)
InitRatios == InitOf(RatioFocuses)
InitAbsent == InitOf({"absent"})

\* ------------------------------------------------------------------------
\* IAMDataCollection.__init__, one action per derivation
\* ------------------------------------------------------------------------

\* the construction ends with the exception e
Fail(e) == raised' = e /\ failed_at' = pc /\ pc' = "failed"

ElectricityMarkets ==
    /\ UNCHANGED gvars
    /\ UNCHANGED <<fvars, mvars>>
    /\ pc = "electricity_markets"
    /\ LET r == get_iam_electricity_markets(data, year, system_model, time_horizon, catalogue)
       IN IF r.exc # "none"
          THEN /\ Fail(r.exc)
               /\ UNCHANGED <<electricity_markets, printed>>
          ELSE /\ electricity_markets' = r.val.shares
               /\ printed' = [printed EXCEPT !.electricity = r.val.printed]
               /\ pc' = "fuel_markets"
               /\ UNCHANGED <<raised, failed_at>>
    /\ UNCHANGED <<year, system_model, time_horizon, catalogue, data, gains_data, loaded,
                   fuel_markets, production_volumes, carbon_capture_rate, ratios,
                   efficiency, emissions>>

FuelMarkets ==
    /\ UNCHANGED gvars
    /\ UNCHANGED <<fvars, mvars>>
    /\ pc = "fuel_markets"
    /\ LET r == get_iam_fuel_markets(data, year, system_model, time_horizon, catalogue)
       IN /\ data' = r.val.data
          /\ IF r.exc # "none"
             THEN /\ Fail(r.exc)
                  /\ UNCHANGED <<fuel_markets, printed>>
             ELSE /\ fuel_markets' = r.val.shares
                  /\ printed' = [printed EXCEPT !.fuels = r.val.printed]
                  /\ pc' = "production_volumes"
                  /\ UNCHANGED <<raised, failed_at>>
    /\ UNCHANGED <<year, system_model, time_horizon, catalogue, gains_data, loaded,
                   electricity_markets, production_volumes, carbon_capture_rate, ratios,
                   efficiency, emissions>>

ProductionVolumes ==
    /\ UNCHANGED gvars
    /\ UNCHANGED <<fvars, mvars>>
    /\ pc = "production_volumes"
    /\ LET r == get_iam_production_volumes(ProdVars(catalogue), data, year)
       IN IF r.exc # "none"
          THEN Fail(r.exc) /\ UNCHANGED production_volumes
          ELSE /\ production_volumes' = r.val
               /\ pc' = "carbon_capture_rate"
               /\ UNCHANGED <<raised, failed_at>>
    /\ UNCHANGED <<year, system_model, time_horizon, catalogue, data, gains_data, loaded,
                   electricity_markets, fuel_markets, carbon_capture_rate, ratios,
                   efficiency, emissions, printed>>

CarbonCaptureRate ==
    /\ UNCHANGED gvars
    /\ UNCHANGED <<fvars, mvars>>
    /\ pc = "carbon_capture_rate"
    /\ LET r == get_carbon_capture_rate(
                    get_iam_variable_labels("carbon capture", "iam_aliases", catalogue),
                    data, data.region, year)
       IN IF r.exc # "none"
          THEN Fail(r.exc) /\ UNCHANGED carbon_capture_rate
          ELSE /\ carbon_capture_rate' = r.val
               /\ pc' = "electricity_efficiencies"
               /\ UNCHANGED <<raised, failed_at>>
    /\ UNCHANGED <<year, system_model, time_horizon, catalogue, data, gains_data, loaded,
                   electricity_markets, fuel_markets, production_volumes, ratios,
                   efficiency, emissions, printed>>

\* one of the seven ratio derivations of __init__ (lines 200-206): r is what
\* the derivation returned, `name` the local it is assigned to
RatioStep(here, r, name, next) ==
    /\ UNCHANGED gvars
    /\ UNCHANGED <<fvars, mvars>>
    /\ pc = here
    /\ IF r.exc # "none"
       THEN Fail(r.exc) /\ UNCHANGED ratios
       ELSE /\ ratios' = [ratios EXCEPT ![name] = r.val]
            /\ pc' = next
            /\ UNCHANGED <<raised, failed_at>>
    /\ UNCHANGED <<year, system_model, time_horizon, catalogue, data, gains_data, loaded,
                   electricity_markets, fuel_markets, production_volumes,
                   carbon_capture_rate, efficiency, emissions, printed>>

ElectricityEfficiencies ==
    RatioStep("electricity_efficiencies",
              get_iam_electricity_efficiencies(data, year, catalogue),
              "electricity_efficiencies", "electricity_emissions")

ElectricityEmissions ==
    RatioStep("electricity_emissions",
              get_gains_electricity_emissions(gains_data, year, catalogue),
              "electricity_emissions", "cement_emissions")

CementEmissions ==
    RatioStep("cement_emissions", get_gains_cement_emissions(gains_data, year),
              "cement_emissions", "cement_efficiencies")

CementEfficiencies ==
    RatioStep("cement_efficiencies", get_iam_cement_efficiencies(data, year, catalogue),
              "cement_efficiencies", "steel_emissions")

SteelEmissions ==
    RatioStep("steel_emissions", get_gains_steel_emissions(gains_data, year),
              "steel_emissions", "steel_efficiencies")

SteelEfficiencies ==
    RatioStep("steel_efficiencies", get_iam_steel_efficiencies(data, year, catalogue),
              "steel_efficiencies", "fuel_efficiencies")

FuelEfficiencies ==
    RatioStep("fuel_efficiencies", get_iam_fuel_efficiencies(data, year, catalogue),
              "fuel_efficiencies", "concat")

\* self.efficiency = xr.concat([...], dim="variables");
\* self.emissions = xr.concat([...], dim="sector"); the model is not "image",
\* so land_use and land_use_change are None
Concat ==
    /\ UNCHANGED gvars
    /\ UNCHANGED <<fvars, mvars>>
    /\ pc = "concat"
    /\ efficiency' = ratios.electricity_efficiencies @@ ratios.steel_efficiencies
                     @@ ratios.cement_efficiencies @@ ratios.fuel_efficiencies
    /\ emissions' = ratios.electricity_emissions @@ ratios.steel_emissions
                    @@ ratios.cement_emissions
    /\ pc' = "done"
    /\ UNCHANGED <<year, system_model, time_horizon, catalogue, data, gains_data, loaded,
                   electricity_markets, fuel_markets, production_volumes,
                   carbon_capture_rate, ratios, printed, raised, failed_at>>

Next ==
    \/ ElectricityMarkets
    \/ FuelMarkets
    \/ ProductionVolumes
    \/ CarbonCaptureRate
    \/ ElectricityEfficiencies
    \/ ElectricityEmissions
    \/ CementEmissions
    \/ CementEfficiencies
    \/ SteelEmissions
    \/ SteelEfficiencies
    \/ FuelEfficiencies
    \/ Concat

SpecMarkets == InitMarkets /\ [][Next]_vars
SpecCapture == InitCapture /\ [][Next]_vars
SpecRatios == InitRatios /\ [][Next]_vars
SpecAbsent == InitAbsent /\ [][Next]_vars

\* ------------------------------------------------------------------------
\* The database of activities (transformation.py)
\* ------------------------------------------------------------------------

\* the "production volume" field of an exchange that has none
NoVolume == [k |-> "none", n |-> 0, d |-> 1]

\* new_name, new_prod, new_loc, new_unit before their first assignment
Unbound == <<None, None, None, None>>

\* an exchange of a dataset; a biosphere exchange has no product and no
\* location
Exchange(n, p, l, u, a, t) ==
    [name |-> n, product |-> p, location |-> l, unit |-> u, amount |-> a,
     type |-> t, production_volume |-> NoVolume]

Dataset(n, p, l, u, excs) ==
    [name |-> n, reference_product |-> p, location |-> l, unit |-> u,
     exchanges |-> excs]

Range(s) == {s[i] : i \in DOMAIN s}

RECURSIVE SetToSeq(_)
SetToSeq(S) ==
    IF S = {} THEN << >>
    ELSE LET x == CHOOSE y \in S : TRUE IN <<x>> \o SetToSeq(S \ {x})

Reverse(s) == [i \in 1..Len(s) |-> s[Len(s) + 1 - i]]

\* get_tuples_from_database(database)
get_tuples_from_database(db) ==
    {<<db[i].name, db[i].reference_product, db[i].location>> : i \in DOMAIN db}

\* get_ecoinvent_locs
get_ecoinvent_locs(db) == {db[i].location : i \in DOMAIN db}

\* the scenario region of a location of the database
ecoinvent_to_iam_location(loc) ==
    CASE loc = "RER" -> "R1"
      [] loc = "US" -> "R2"
      [] OTHER -> "World"

\* ws.get_many(database, ws.equals("name", name),
\*             ws.contains("reference product", ref_prod)), as positions
Matches(db, name, ref_prod) ==
    {i \in DOMAIN db :
        db[i].name = name /\ StrContains(ref_prod, db[i].reference_product)}

\* ws.get_one(database, name, reference product, location)
get_one(db, name, ref_prod, loc) ==
    LET found == {i \in Matches(db, name, ref_prod) : db[i].location = loc}
    IN IF found = {} THEN Raise("NoResults")
       ELSE IF Cardinality(found) > 1 THEN Raise("MultipleResults")
       ELSE Return(db[CHOOSE i \in found : TRUE])

\* d_map = {self.ecoinvent_to_iam_loc[d["location"]]: d["location"] for d in ...}
\* a later dataset of the database replaces an earlier one of the same region
DMap(db, e2i, name, ref_prod) ==
    LET m == Matches(db, name, ref_prod)
    IN [r \in {e2i[db[i].location] : i \in m} |->
           db[SetMax({i \in m : e2i[db[i].location] = r})].location]

\* a variant of TemplateOf without the second search, at GLO
TemplateWithoutGlobal(db, e2i, name, ref_prod, region) ==
    LET d_map == DMap(db, e2i, name, ref_prod)
    IN get_one(db, name, ref_prod,
               IF region \in DOMAIN d_map THEN d_map[region] ELSE "RoW")

\* the dataset copied for a region: lines 307-329
TemplateOf(db, e2i, name, ref_prod, region) ==
    LET d_map == DMap(db, e2i, name, ref_prod)
        loc == IF region \in DOMAIN d_map THEN d_map[region] ELSE "RoW"
        dataset == get_one(db, name, ref_prod, loc)
    IN IF dataset.exc = "NoResults" THEN get_one(db, name, ref_prod, "GLO")
       ELSE dataset

\* production_volumes.sel(region, variables).interp(year).sum(dim="variables")
ProdVol(pv, region, production_variable, yr) ==
    LET years == {c[3] : c \in DOMAIN pv}
    IN SumSkipNa(production_variable,
                 [v \in production_variable |->
                     Interp([y \in years |-> pv[<<region, v, y>>]], years, yr)])

\* a variant of CopyToRegion that leaves the copy at the location of the
\* dataset it is made from
CopyInPlace(ds, region, prod_vol) ==
    [ds EXCEPT
        !.exchanges = [k \in DOMAIN ds.exchanges |->
            IF ds.exchanges[k].type = "production"
            THEN [ds.exchanges[k] EXCEPT !.production_volume = prod_vol]
            ELSE ds.exchanges[k]]]

\* wt.copy_to_new_location(dataset, region) and the production volume field
CopyToRegion(ds, region, prod_vol) ==
    [ds EXCEPT
        !.location = region,
        !.exchanges = [k \in DOMAIN ds.exchanges |->
            IF ds.exchanges[k].type = "production"
            THEN [ds.exchanges[k] EXCEPT !.location = region,
                                         !.production_volume = prod_vol]
            ELSE ds.exchanges[k]]]

\* fetch_proxies(name, ref_prod, production_variable, relink=False): what it
\* returns and how it leaves self.database and self.list_datasets
fetch_proxies(db, lst, regs, e2i, pv, yr, name, ref_prod, production_variable) ==
    LET m == Matches(db, name, ref_prod)
        dataset == [r \in Range(regs) |-> TemplateOf(db, e2i, name, ref_prod, r)]
        failing == {k \in DOMAIN regs : dataset[regs[k]].exc # "none"}
        proxies == [r \in Range(regs) |->
                       CopyToRegion(dataset[r].val, r,
                                    ProdVol(pv, r, production_variable, yr))]
        ds_name == proxies[regs[Len(regs)]].name
        ds_ref_prod == proxies[regs[Len(regs)]].reference_product
        kept(act) == <<act.name, act.reference_product>> # <<ds_name, ds_ref_prod>>
    IN IF \E i \in m : db[i].location \notin DOMAIN e2i THEN Raise("KeyError")
       ELSE IF failing # {}
            THEN Raise(dataset[regs[SetMin(failing)]].exc)
       ELSE IF \E v \in production_variable, r \in Range(regs) :
                   \A c \in DOMAIN pv : <<c[1], c[2]>> # <<r, v>>
            THEN Raise("KeyError")
       ELSE Return([d_act |-> proxies,
                    database |-> SelectSeq(db, kept),
                    list_datasets |->
                        {t \in lst : <<t[1], t[2]>> # <<ds_name, ds_ref_prod>>}
                        \cup {<<proxies[r].name, proxies[r].reference_product,
                                proxies[r].location>> : r \in Range(regs)}])

\* a variant of doesnt_contain_any that lets every dataset through
ContainsAnything(name, excludes_datasets) == name = name

\* ws.doesnt_contain_any("name", excludes_datasets)
doesnt_contain_any(name, excludes_datasets) ==
    \A x \in excludes_datasets : ~StrContains(x, name)

\* (exc["name"], exc["product"], exc["location"], exc["unit"])
ExcKey(e) == <<e.name, e.product, e.location, e.unit>>

\* excs_to_relink of a dataset
ExcsToRelink(act, lst) ==
    LET dangling(e) == /\ e.type = "technosphere"
                       /\ <<e.name, e.product, e.location>> \notin lst
    IN SelectSeq(act.exchanges, dangling)

RECURSIVE SumAmounts(_)
SumAmounts(excs) ==
    IF excs = << >> THEN 0 ELSE Head(excs).amount + SumAmounts(Tail(excs))

\* a variant of SummedAmount that adds up every exchange to relink
SumOfAll(excs_to_relink, exc) == SumAmounts(excs_to_relink)

\* sum(e["amount"] for e in excs_to_relink if (name, product, location, unit) == exc)
SummedAmount(excs_to_relink, exc) ==
    LET same(e) == ExcKey(e) = exc
    IN SumAmounts(SelectSeq(excs_to_relink, same))

\* the first name, whether or not it is a known dataset with the product and
\* the location
UncheckedCandidate(names, product, alt_loc, lst) ==
    IF names = << >> THEN 0 ELSE 1

\* the place in alternative_names of the first name that, with the product of
\* the exchange and the location, is a known dataset; 0 when there is none
FirstCandidate(names, product, alt_loc, lst) ==
    LET hits == {k \in DOMAIN names : <<names[k], product, alt_loc>> \in lst}
    IN IF hits = {} THEN 0 ELSE SetMin(hits)

\* a variant of CachePut that starts the cache of the location afresh
CacheReset(c, loc, exc, target) ==
    [l \in DOMAIN c \cup {loc} |->
        IF l = loc THEN [x \in {exc} |-> target] ELSE c[l]]

\* self.cache[location][exc] = target
CachePut(c, loc, exc, target) ==
    LET inner == IF loc \in DOMAIN c THEN c[loc] ELSE << >>
    IN [l \in DOMAIN c \cup {loc} |->
           IF l = loc
           THEN [x \in DOMAIN inner \cup {exc} |-> IF x = exc THEN target ELSE inner[x]]
           ELSE c[l]]

\* one turn of `for exc in unique_excs_to_relink` (lines 449-521); st holds
\* the cache, alternative_names, the locals new_name, new_prod, new_loc and
\* new_unit (None while unbound), the exchanges of the dataset and what was
\* printed
RelinkExchange(st, location, excs_to_relink, exc, lst, regs, e2i) ==
    LET hit == location \in DOMAIN st.cache /\ exc \in DOMAIN st.cache[location]
        names == IF hit THEN st.alternative_names
                 ELSE <<exc[1]>> \o st.alternative_names
        alt_loc == IF location \in regs THEN location ELSE e2i[location]
        k == IF hit THEN 0 ELSE FirstCandidate(names, exc[2], alt_loc, lst)
        new == IF hit THEN st.cache[location][exc]
               ELSE IF k > 0 THEN <<names[k], exc[2], alt_loc, exc[4]>>
               ELSE st.new
        differs(e) == ExcKey(e) # exc
        kept == SelectSeq(st.exchanges, differs)
    IN IF ~hit /\ location \notin regs /\ location \notin DOMAIN e2i
       THEN [st EXCEPT !.exc = "KeyError", !.alternative_names = names]
       ELSE [cache |-> IF k > 0 THEN CachePut(st.cache, location, exc, new)
                       ELSE st.cache,
             alternative_names |-> names,
             new |-> new,
             exchanges |->
                 IF new = Unbound THEN kept
                 ELSE Append(kept, Exchange(new[1], new[2], new[3], new[4],
                                            SummedAmount(excs_to_relink, exc),
                                            "technosphere")),
             printed |-> IF new = Unbound THEN st.printed \cup {<<exc[1], location>>}
                         ELSE st.printed,
             exc |-> "none"]

RECURSIVE RelinkExchanges(_, _, _, _, _, _, _)
RelinkExchanges(todo, st, location, excs_to_relink, lst, regs, e2i) ==
    IF todo = << >> \/ st.exc # "none" THEN st
    ELSE RelinkExchanges(
            Tail(todo),
            RelinkExchange(st, location, excs_to_relink, Head(todo), lst, regs, e2i),
            location, excs_to_relink, lst, regs, e2i)

\* list(set(...)): the order in which a set of tuples is walked is not fixed
UniqueExcsToRelink(excs_to_relink, order) ==
    LET unique == SetToSeq({ExcKey(e) : e \in Range(excs_to_relink)})
    IN IF order = "reverse" THEN Reverse(unique) ELSE unique

\* the body of the loop over the datasets, for the dataset at place i
RelinkDataset(db, i, st, lst, regs, e2i, order) ==
    RelinkExchanges(
        UniqueExcsToRelink(ExcsToRelink(db[i], lst), order),
        [st EXCEPT !.exchanges = db[i].exchanges],
        db[i].location, ExcsToRelink(db[i], lst), lst, regs, e2i)

RECURSIVE RelinkFrom(_, _, _, _, _, _, _, _)
RelinkFrom(i, db, st, lst, regs, e2i, excludes_datasets, order) ==
    IF i > Len(db) \/ st.exc # "none"
    THEN [database |-> db, cache |-> st.cache, printed |-> st.printed, exc |-> st.exc]
    ELSE IF ~doesnt_contain_any(db[i].name, excludes_datasets)
    THEN RelinkFrom(i + 1, db, st, lst, regs, e2i, excludes_datasets, order)
    ELSE LET done == RelinkDataset(db, i, st, lst, regs, e2i, order)
         IN RelinkFrom(i + 1, [db EXCEPT ![i].exchanges = done.exchanges], done,
                       lst, regs, e2i, excludes_datasets, order)

\* relink_datasets(excludes_datasets, alternative_names)
relink_datasets(db, lst, c, regs, e2i, excludes_datasets, alternative_names, order) ==
    RelinkFrom(1, db,
               [cache |-> c, alternative_names |-> alternative_names, new |-> Unbound,
                exchanges |-> << >>, printed |-> {}, exc |-> "none"],
               lst, regs, e2i, excludes_datasets, order)

\* ------------------------------------------------------------------------
\* Databases and calls
\* ------------------------------------------------------------------------

\* largest amount of an exchange
MaxAmount == 2

\* largest number of calls made on one transformation object
MaxCalls == 3

ProductionExchange(n, p, l, u) == Exchange(n, p, l, u, 1, "production")

BiosphereExchange == Exchange("Carbon dioxide", None, None, "kilogram", 1, "biosphere")

\* the emission of the steel production dataset of a location: the datasets
\* of two locations differ by more than their location
EmissionAt(l) == CASE l = "RER" -> 1 [] l = "RoW" -> 2 [] OTHER -> 3

\* a steel production dataset of the database
SteelDataset(p, l) ==
    Dataset("steel production", p, l, "kilogram",
            <<ProductionExchange("steel production", p, l, "kilogram"),
              [BiosphereExchange EXCEPT !.amount = EmissionAt(l)]>>)

SteelInput(l, u, a) ==
    Exchange("steel production", "steel, low-alloyed", l, u, a, "technosphere")

\* an input that names a provider the database does not hold under that name
OldInput(l, u, a) ==
    Exchange("steel making", "steel, low-alloyed", l, u, a, "technosphere")

\* the inputs of the car production dataset
CarInputs(k, a) ==
    CASE k = 1 -> <<SteelInput("RER", "kilogram", a)>>
      [] k = 2 -> <<SteelInput("RER", "kilogram", a), SteelInput("RER", "kilogram", 2)>>
      [] k = 3 -> <<SteelInput("RER", "kilogram", a), SteelInput("RER", "ton", 1)>>
      [] k = 4 -> <<SteelInput("R1", "kilogram", 1), SteelInput("RER", "kilogram", a)>>
      [] k = 5 -> <<SteelInput("RER", "kilogram", a), OldInput("RER", "kilogram", 1)>>
      [] OTHER -> <<OldInput("RER", "kilogram", a)>>

\* the inputs of the car market dataset
MarketInputs(k) ==
    CASE k = 1 -> <<SteelInput("RoW", "kilogram", 1)>>
      [] k = 2 -> <<OldInput("RoW", "kilogram", 1)>>
      [] OTHER -> <<SteelInput("RER", "kilogram", 1)>>

\* the car market is in the US, or in RER as the car production is
MarketLocation(k) == IF k = 3 THEN "RER" ELSE "US"

CarDataset(k, a) ==
    Dataset("car production", "car", "RER", "unit",
            <<ProductionExchange("car production", "car", "RER", "unit"),
              BiosphereExchange>> \o CarInputs(k, a))

MarketDataset(k) ==
    Dataset("car market", "car", MarketLocation(k), "unit",
            <<ProductionExchange("car market", "car", MarketLocation(k), "unit")>>
            \o MarketInputs(k))

\* the steel production datasets: one in RER, RoW and GLO at most
SteelDatasets(rer, row, glo) ==
    (IF rer = None THEN << >> ELSE <<SteelDataset(rer, "RER")>>)
    \o (IF row = None THEN << >> ELSE <<SteelDataset(row, "RoW")>>)
    \o (IF glo = None THEN << >> ELSE <<SteelDataset(glo, "GLO")>>)

\* the orders in which the scenario cube lists its regions
RegionOrders == {<<"R1", "R2", "World">>, <<"World", "R2", "R1">>}

NoCall ==
    [op |-> None, name |-> None, ref_prod |-> None, excludes_datasets |-> {},
     alternative_names |-> << >>, order |-> None, cache |-> << >>]

\* BaseTransformation.__init__ on a database and a scenario data collection
InitTransformation(db, regs, rate) ==
    /\ year = 2025
    /\ system_model = "attributional"
    /\ time_horizon = 10
    /\ catalogue = "eff"
    /\ data = RawCube(<< >>, {})
    /\ loaded = RawCube(<< >>, {}).v
    /\ gains_data = GainsCube(<< >>)
    /\ electricity_markets = None
    /\ fuel_markets = None
    /\ production_volumes =
           get_iam_production_volumes(ProdVars("eff"), RawCube(<< >>, {}), 2025).val
    /\ carbon_capture_rate = rate
    /\ ratios = NoRatios
    /\ efficiency = None
    /\ emissions = None
    /\ printed = [electricity |-> None, fuels |-> None]
    /\ raised = "none"
    /\ failed_at = "none"
    /\ pc = "done"
    /\ database = db
    /\ list_datasets = get_tuples_from_database(db)
    /\ cache = << >>
    /\ ecoinvent_to_iam_loc =
           [l \in get_ecoinvent_locs(db) |-> ecoinvent_to_iam_location(l)]
    /\ self_regions = regs
    /\ d_act = None
    /\ before = db
    /\ call = NoCall
    /\ relink_printed = {}
    /\ graph_raised = "none"
    /\ calls = 0
    /\ gpc = "idle"

\* a transformation whose scenario data the calls under study do not read
InitGraphOf(db, regs) == InitTransformation(db, regs, None)

InitGraph ==
    \E rer \in {None, "steel, low-alloyed"},
       row \in {None, "steel, low-alloyed", "steel, unalloyed"},
       glo \in {None, "steel, low-alloyed"},
       k1 \in 1..6, a \in 1..MaxAmount, k2 \in 1..3, regs \in RegionOrders :
        /\ InitGraphOf(SteelDatasets(rer, row, glo)
                       \o <<CarDataset(k1, a), MarketDataset(k2)>>, regs)
        /\ NoFunctionCall
        /\ NoMethodCall

\* a call of fetch_proxies as the steel sector makes it (steel.py, 151-155)
FetchProxies ==
    /\ gpc = "idle"
    /\ calls < MaxCalls
    /\ \E ref_prod \in {"steel", "steel, low-alloyed", "steel, unalloyed"} :
         LET r == fetch_proxies(database, list_datasets, self_regions,
                                ecoinvent_to_iam_loc, production_volumes, year,
                                "steel production", ref_prod,
                                {"steel - primary", "steel - secondary"})
         IN /\ call' = [NoCall EXCEPT !.op = "fetch_proxies",
                                      !.name = "steel production",
                                      !.ref_prod = ref_prod]
            /\ IF r.exc # "none"
               THEN /\ graph_raised' = r.exc
                    /\ gpc' = "failed"
                    /\ UNCHANGED <<database, list_datasets, d_act>>
               ELSE /\ database' = r.val.database
                    /\ list_datasets' = r.val.list_datasets
                    /\ d_act' = r.val.d_act
                    /\ gpc' = "fetched"
                    /\ UNCHANGED graph_raised
    /\ before' = database
    /\ calls' = calls + 1
    /\ UNCHANGED <<cache, ecoinvent_to_iam_loc, self_regions, relink_printed>>
    /\ UNCHANGED dvars
    /\ UNCHANGED <<fvars, mvars>>

\* self.database.extend(list(steel_markets.values())) (steel.py, 275)
Extend ==
    /\ gpc = "fetched"
    /\ database' = database \o [k \in DOMAIN self_regions |-> d_act[self_regions[k]]]
    /\ gpc' = "idle"
    /\ UNCHANGED <<list_datasets, cache, ecoinvent_to_iam_loc, self_regions, d_act,
                   before, call, relink_printed, graph_raised, calls>>
    /\ UNCHANGED dvars
    /\ UNCHANGED <<fvars, mvars>>

\* the arguments relink_datasets is called with
RelinkArguments ==
    {[excludes_datasets |-> {}, alternative_names |-> << >>],
     [excludes_datasets |-> {"market"}, alternative_names |-> << >>],
     [excludes_datasets |-> {}, alternative_names |-> <<"steel production">>]}

RelinkDatasets ==
    /\ gpc = "idle"
    /\ calls < MaxCalls
    /\ \E args \in RelinkArguments, order \in {"forward", "reverse"} :
         LET r == relink_datasets(database, list_datasets, cache, Range(self_regions),
                                  ecoinvent_to_iam_loc, args.excludes_datasets,
                                  args.alternative_names, order)
         IN /\ call' = [NoCall EXCEPT !.op = "relink_datasets",
                                      !.excludes_datasets = args.excludes_datasets,
                                      !.alternative_names = args.alternative_names,
                                      !.order = order,
                                      !.cache = cache]
            /\ database' = r.database
            /\ cache' = r.cache
            /\ relink_printed' = r.printed
            /\ graph_raised' = r.exc
            /\ gpc' = IF r.exc # "none" THEN "failed" ELSE "idle"
    /\ before' = database
    /\ calls' = calls + 1
    /\ UNCHANGED <<list_datasets, ecoinvent_to_iam_loc, self_regions, d_act>>
    /\ UNCHANGED dvars
    /\ UNCHANGED <<fvars, mvars>>

NextGraph ==
    \/ FetchProxies
    \/ Extend
    \/ RelinkDatasets

SpecGraph == InitGraph /\ [][NextGraph]_vars

\* ------------------------------------------------------------------------
\* The module-level functions of transformation.py
\* ------------------------------------------------------------------------

\* largest production volume an exchange of the model declares
MaxVolume == 2

\* A production volume is a float of the form w + e * 1e-9, kept exactly as
\* the two integers w and e.
Volume(w, e) == [w |-> w, e |-> e]

\* the minimum value 1e-9
MinVolume == Volume(0, 1)

AddVolume(a, b) == Volume(a.w + b.w, a.e + b.e)

\* max(float(exc.get("production volume", 1e-9)), 1e-9)
VolumeOf(exc) ==
    IF exc.production_volume = NoVolume THEN MinVolume
    ELSE IF exc.production_volume.n >= 1 THEN Volume(exc.production_volume.n, 0)
    ELSE MinVolume

\* ws.production(act)
ProductionOf(act) ==
    LET is_production(e) == e.type = "production"
    IN SelectSeq(act.exchanges, is_production)

\* the key of dict_act
DatasetKey(act) == <<act.name, act.location, act.reference_product, act.unit>>

RECURSIVE VolumePairs(_)
\* the pairs (key, production_volume) in the order the two loops of lines
\* 71-80 meet them
VolumePairs(ds) ==
    IF ds = << >> THEN << >>
    ELSE LET act == Head(ds)
             production == ProductionOf(act)
         IN [k \in DOMAIN production |-> <<DatasetKey(act), VolumeOf(production[k])>>]
            \o VolumePairs(Tail(ds))

RECURSIVE TotalVolume(_)
\* total_production_volume after the loops
TotalVolume(pairs) ==
    IF pairs = << >> THEN Volume(0, 0)
    ELSE AddVolume(Head(pairs)[2], TotalVolume(Tail(pairs)))

\* dict_act[key] after the loops: the last value assigned to the key
LastVolume(pairs, key) ==
    pairs[SetMax({i \in DOMAIN pairs : pairs[i][1] = key})][2]

\* get_shares_from_production_volume(ds_list); the share num / den of a key
\* is kept as its numerator and denominator
get_shares_from_production_volume(ds) ==
    LET pairs == VolumePairs(ds)
    IN [key \in {pairs[i][1] : i \in DOMAIN pairs} |->
           [num |-> LastVolume(pairs, key), den |-> TotalVolume(pairs)]]

\* the lambda `keep` of remove_exchanges; an exchange without a product has
\* the product None
Keep(x, terms) ==
    IF x.product # None /\ \E ele \in Range(terms) : StrContains(ele, x.product)
    THEN << >>
    ELSE x

\* remove_exchanges(datasets_dict, list_exc)
remove_exchanges(dd, terms) ==
    [region \in DOMAIN dd |->
        [dd[region] EXCEPT
            !.exchanges = [k \in DOMAIN dd[region].exchanges |->
                              Keep(dd[region].exchanges[k], terms)]]]

\* the production volumes an exchange can declare
VolumeChoices == {NoVolume} \cup {Num(i) : i \in 0..MaxVolume}

\* a supplier with one or two production exchanges
SupplierDataset(l, pvs) ==
    Dataset("steel production", "steel, low-alloyed", l, "kilogram",
            [k \in DOMAIN pvs |->
                [ProductionExchange("steel production", "steel, low-alloyed", l,
                                    "kilogram")
                    EXCEPT !.production_volume = pvs[k]]]
            \o <<BiosphereExchange>>)

SupplierDatasets ==
    {SupplierDataset(l, pvs) :
        l \in {"RER", "RoW"},
        pvs \in [{1} -> VolumeChoices] \cup [{1, 2} -> VolumeChoices]}

\* the lists of terms given to remove_exchanges
TermLists == {<<"steel">>, <<"car">>, <<"steel", "car">>, <<"market">>}

\* a call of one of the two functions is about to be made
InitFunctions ==
    /\ InitGraphOf(<< >>, <<"R1", "R2", "World">>)
    /\ \/ /\ fpc = "shares"
          /\ ds_list \in [{1} -> SupplierDatasets] \cup [{1, 2} -> SupplierDatasets]
          /\ datasets_given = << >>
          /\ list_exc = << >>
       \/ /\ fpc = "remove"
          /\ ds_list = << >>
          /\ \E k1, k2 \in 1..6, a \in 1..MaxAmount :
                datasets_given = [r \in {"R1", "R2"} |->
                                     IF r = "R1" THEN CarDataset(k1, a)
                                     ELSE CarDataset(k2, 1)]
          /\ list_exc \in TermLists
    /\ dict_act = None
    /\ datasets_dict = datasets_given
    /\ NoMethodCall

GetSharesFromProductionVolume ==
    /\ fpc = "shares"
    /\ dict_act' = get_shares_from_production_volume(ds_list)
    /\ fpc' = "shared"
    /\ UNCHANGED <<ds_list, datasets_given, datasets_dict, list_exc>>
    /\ UNCHANGED <<dvars, gvars, mvars>>

RemoveExchanges ==
    /\ fpc = "remove"
    /\ datasets_dict' = remove_exchanges(datasets_dict, list_exc)
    /\ fpc' = "removed"
    /\ UNCHANGED <<ds_list, dict_act, datasets_given, list_exc>>
    /\ UNCHANGED <<dvars, gvars, mvars>>

NextFunctions ==
    \/ GetSharesFromProductionVolume
    \/ RemoveExchanges

SpecFunctions == InitFunctions /\ [][NextFunctions]_vars

\* ------------------------------------------------------------------------
\* Properties of the transformation of the database
\* ------------------------------------------------------------------------

\* (name, product, location) of an exchange
Triple(e) == <<e.name, e.product, e.location>>

\* a technosphere exchange whose provider is not a known dataset
IsDangling(e) == e.type = "technosphere" /\ Triple(e) \notin list_datasets

\* the scenario region of a dataset
OriginRegion(act) ==
    IF act.location \in Range(self_regions) THEN act.location
    ELSE ecoinvent_to_iam_loc[act.location]

\* the dataset at place i was walked by the last call of relink_datasets
Processed(i) ==
    \A x \in call.excludes_datasets : ~StrContains(x, before[i].name)

RECURSIVE TotalAmount(_, _, _)
\* the amounts of the exchanges at the places ks of excs, added up
TotalAmount(excs, ks, acc) ==
    IF ks = {} THEN acc
    ELSE LET k == CHOOSE x \in ks : TRUE
         IN TotalAmount(excs, ks \ {k}, acc + excs[k].amount)

\* the places of the dangling exchanges of a dataset with a given provider
DanglingTo(act, triple) ==
    {k \in DOMAIN act.exchanges :
        IsDangling(act.exchanges[k]) /\ Triple(act.exchanges[k]) = triple}

\* the places of the exchanges of a dataset with a given provider
EdgesTo(act, triple) ==
    {k \in DOMAIN act.exchanges :
        act.exchanges[k].type = "technosphere" /\ Triple(act.exchanges[k]) = triple}

\* the provider of the same name and product in the region of the dataset
Alternate(act, e) == <<e.name, e.product, OriginRegion(act)>>

RelinkReturned == call.op = "relink_datasets" /\ graph_raised = "none"

FetchReturned == call.op = "fetch_proxies" /\ gpc = "fetched"

\* C3 (as stated): fetch_proxies returns one dataset per region, each with
\* its region as location, and no dataset with the name and reference product
\* of a dataset it copied from (which the copy keeps) remains in the database.
C3_NoTemplateRemains ==
    FetchReturned =>
        /\ DOMAIN d_act = Range(self_regions)
        /\ \A r \in DOMAIN d_act : d_act[r].location = r
        /\ \A r \in DOMAIN d_act :
               \A j \in DOMAIN database :
                   <<database[j].name, database[j].reference_product>>
                       # <<d_act[r].name, d_act[r].reference_product>>

\* fetch_proxies returned while two datasets of the name, with different
\* reference products, both contain the reference product asked for
C3_Witness ==
    /\ FetchReturned
    /\ \E i, j \in Matches(before, call.name, call.ref_prod) :
           before[i].reference_product # before[j].reference_product

\* ------------------------------------------------------------------------
\* Properties of the scenario data collection
\* ------------------------------------------------------------------------

\* the statements of __init__ in the order they run
Steps ==
    <<"electricity_markets", "fuel_markets", "production_volumes",
      "carbon_capture_rate", "electricity_efficiencies", "electricity_emissions",
      "cement_emissions", "cement_efficiencies", "steel_emissions",
      "steel_efficiencies", "fuel_efficiencies", "concat", "done">>

\* the statement `step` has run and returned
Past(step) ==
    \E i, j \in DOMAIN Steps : i < j /\ Steps[i] = step /\ Steps[j] = pc

Constructed == pc = "done"

RECURSIVE IntSum(_, _)
\* the sum of the integers f[x], x in S
IntSum(S, f) ==
    IF S = {} THEN 0
    ELSE LET x == CHOOSE y \in S : TRUE IN f[x] + IntSum(S \ {x}, f)

\* the labels of a cube over (region, label, ...)
LabelsIn(cube) == {c[2] : c \in DOMAIN cube}

\* the raw total of region r in year y over the variables of the labels kept
RawTotal(labels, kept, r, y) ==
    IntSum(kept, [l \in kept |-> data.v[<<r, labels[l], y>>]])

\* the total of region r over the labels kept, interpolated to the year asked
InterpolatedTotal(labels, kept, r) ==
    SumOver(kept, [l \in kept |-> Interp(Series(data, r, labels[l]), data.year, year)])

ElecSharesSum(r, y) ==
    SumOver(LabelsIn(electricity_markets),
            [l \in LabelsIn(electricity_markets) |-> electricity_markets[<<r, l, y>>]])

FuelSharesSum(r) ==
    SumOver(LabelsIn(fuel_markets),
            [l \in LabelsIn(fuel_markets) |-> fuel_markets[<<r, l>>]])

Attributional(step) == system_model = "attributional" /\ Past(step)

C4_NoYearOutsideBounds ==
    /\ OutOfRange(year, data.year) => pc \in {"electricity_markets", "failed"}
    /\ (system_model = "consequential" /\ Past("electricity_markets"))
           => ~OutOfRange(year + time_horizon, data.year)

\* C5: after each efficiency and emission derivation, no ratio is below 1
\* when the year is after 2020 and none is above 1 when it is before 2020.
C5_RatiosOnTheSideOfOne ==
    \A name \in DOMAIN ratios : Past(name) =>
        \A c \in DOMAIN ratios[name] :
            /\ year > 2020 => Le(One, ratios[name][c])
            /\ year < 2020 => Le(ratios[name][c], One)

\* each of the seven derivations has returned a ratio of 1 where the values
\* of the cubes give a ratio on the wrong side of 1
C5_Witness ==
    /\ Constructed
    /\ \/ /\ year = 2030
          /\ \/ data.v[<<"R1", "Eff|Elec|Coal", 2030>>] < data.v[<<"R1", "Eff|Elec|Coal", 2020>>]
             \/ data.v[<<"R1", "Eff|Fuel|Diesel", 2030>>] < data.v[<<"R1", "Eff|Fuel|Diesel", 2020>>]
             \/ gains_data.v[<<"G1", "NOx", "CEMENT", 2020>>] < gains_data.v[<<"G1", "NOx", "CEMENT", 2030>>]
       \/ /\ year = 2010
          /\ \/ data.v[<<"R1", "Eff|Elec|Coal", 2010>>] > data.v[<<"R1", "Eff|Elec|Coal", 2020>>]
             \/ gains_data.v[<<"G1", "NOx", "STEEL", 2020>>] > gains_data.v[<<"G1", "NOx", "STEEL", 2010>>]
    /\ \A name \in DOMAIN ratios : \A c \in DOMAIN ratios[name] :
           c[1] \in {"R1", "G1"} => ratios[name][c] = One

InClipRange(a) == Le(Fin(1, 2), a) /\ Le(a, Num(2))

\* C6 (as stated): every ratio of the efficiency cube is in [0.5, 2].
C6_EfficiencyInClipRange ==
    Constructed => \A c \in DOMAIN efficiency : InClipRange(efficiency[c])

\* C6 (amended): every ratio of the efficiency cube that comes from the
\* steel, cement and fuel derivations is in [0.5, 2]; the electricity ratios
\* are not clipped.
C6_ClippedPartsInClipRange ==
    Constructed =>
        \A c \in DOMAIN efficiency :
            c[2] \notin DOMAIN ElecEffAliases => InClipRange(efficiency[c])

\* a fuel, cement or steel ratio was brought to a bound of [0.5, 2]
C6_Witness ==
    /\ Constructed
    /\ \/ /\ data.v[<<"R1", "Eff|Fuel|Diesel", 2010>>] = 0
          /\ data.v[<<"R1", "Eff|Fuel|Diesel", 2020>>] > 0
          /\ year = 2010
          /\ efficiency[<<"R1", "diesel">>] = Fin(1, 2)
       \/ /\ data.v[<<"R1", "SpecEnergy|Cement", 2020>>] = 0
          /\ data.v[<<"R1", "SpecEnergy|Cement", 2030>>] > 0
          /\ year = 2030
          /\ efficiency[<<"R1", "cement">>] = Num(2)

\* C7 (as stated): no efficiency or emission ratio is NaN or infinite.
C7_RatiosFinite ==
    \A name \in DOMAIN ratios : Past(name) =>
        \A c \in DOMAIN ratios[name] : IsFin(ratios[name][c])

\* the rate of region r and sector s is a number of [0, 1]
RateInUnitRange(a) == IsFin(a) /\ Le(Zero, a) /\ Le(a, One)

\* the variables of the captured and of the vented CO2 of a sector
CapturedVariable(s) == IF s = "cement" THEN "Emi|CCO2|Cement" ELSE "Emi|CCO2|Steel"

VentedVariable(s) == IF s = "cement" THEN "Emi|CO2|Cement" ELSE "Emi|CO2|Steel"

\* captured CO2 of the regions rs for a sector in year y
Captured(rs, s, y) == IntSum(rs, [r \in rs |-> data.v[<<r, CapturedVariable(s), y>>]])

\* captured plus vented CO2 of the regions rs for a sector in year y
Emitted(rs, s, y) ==
    Captured(rs, s, y) + IntSum(rs, [r \in rs |-> data.v[<<r, VentedVariable(s), y>>]])

\* the regions whose emissions give the rate of region r
RegionsOf(r) == IF r = "World" THEN data.region \ {"World"} ELSE {r}

\* C8 (as stated): the capture rate of every region, World included, and of
\* both sectors is in [0, 1], and is 0 where captured plus vented CO2 is zero.
C8_RateInUnitRange ==
    Past("carbon_capture_rate") =>
        \A c \in DOMAIN carbon_capture_rate :
            /\ RateInUnitRange(carbon_capture_rate[c])
            /\ (year \in data.year /\ Emitted(RegionsOf(c[1]), c[2], year) = 0)
                   => carbon_capture_rate[c] = Zero

\* the quotients of the captured CO2 of the regions other than World by
\* their captured and vented CO2, year by year
WorldQuotients(s) ==
    [y \in data.year |->
        Div(Num(Captured(data.region \ {"World"}, s, y)),
            Num(Emitted(data.region \ {"World"}, s, y)))]

\* C9: the World capture rate of cement and of steel is the captured CO2 of
\* the regions other than World over their captured and vented CO2
\* (interpolated to the year asked for); the World rows play no part.
C9_WorldRateFromOtherRegions ==
    Past("carbon_capture_rate") =>
        \A s \in {"cement", "steel"} :
            carbon_capture_rate[<<"World", s>>]
                = Interp(WorldQuotients(s), data.year, year)

\* the World rate was returned for a cube whose World rows give another rate
C9_Witness ==
    /\ Past("carbon_capture_rate")
    /\ year = 2020
    /\ data.v[<<"World", "Emi|CCO2|Cement", 2020>>] = 0
    /\ Captured(data.region \ {"World"}, "cement", 2020) > 0
    /\ carbon_capture_rate[<<"World", "cement">>]
           = Fin(Captured(data.region \ {"World"}, "cement", 2020),
                 Emitted(data.region \ {"World"}, "cement", 2020))

\* the total of region r is the same, and not zero, in the year asked for and
\* a time horizon later
Unchanged(labels, kept, r) ==
    /\ year \in data.year
    /\ year + time_horizon \in data.year
    /\ RawTotal(labels, kept, r, year) # 0
    /\ RawTotal(labels, kept, r, year) = RawTotal(labels, kept, r, year + time_horizon)

\* C10: in consequential mode a region whose total volume is the same a time
\* horizon later is handled by the "increase" branch.
C10_UnchangedVolumeIncreases ==
    /\ (system_model = "consequential" /\ Past("electricity_markets")) =>
           \A r \in data.region :
               Unchanged(ElecIamAliases, LabelsIn(electricity_markets), r)
                   => printed.electricity[r] = "increase"
    /\ (system_model = "consequential" /\ Past("fuel_markets")) =>
           \A r \in data.region :
               Unchanged(FuelIamAliases, LabelsIn(fuel_markets), r)
                   => printed.fuels[r] = "increase"

\* a region whose technologies changed while their total did not was handled
\* by the "increase" branch
C10_Witness ==
    /\ system_model = "consequential"
    /\ Past("electricity_markets")
    /\ Unchanged(ElecIamAliases, LabelsIn(electricity_markets), "R1")
    /\ data.v[<<"R1", "SE|Elec|Coal", 2020>>] # data.v[<<"R1", "SE|Elec|Coal", 2030>>]
    /\ printed.electricity["R1"] = "increase"

\* the place of a statement of __init__ in Steps
StepIndex(step) == CHOOSE i \in DOMAIN Steps : Steps[i] = step

\* the statement the construction stands at, or stopped at
StandsAt == IF pc = "failed" THEN failed_at ELSE pc

\* the statement `step` has run and returned, whatever happened later
Returned(step) == StepIndex(StandsAt) > StepIndex(step)

\* the statement `step` raised
FailedAt(step) == pc = "failed" /\ failed_at = step

\* the labels of a catalogue whose variable is in the file
Present(labels) == LabelsOf(labels, data.variables)

\* a catalogue some of whose variables, and not all, are missing from the file
PartlyAbsent(labels) == Present(labels) # {} /\ Present(labels) # DOMAIN labels

\* a derivation that found none of its variables in a file of the right years
\* raised SystemExit
AbortsWhenAllAbsent(step, labels) ==
    ((Returned(step) \/ FailedAt(step)) /\ ~OutOfRange(year, data.year)
        /\ Present(labels) = {})
        => FailedAt(step) /\ raised = "SystemExit"

FetchCalled == call.op = "fetch_proxies" /\ gpc \in {"fetched", "failed"}

\* the datasets the call could copy, as places of the database it started on
Templates == Matches(before, call.name, call.ref_prod)

TemplatesAt(loc) == {i \in Templates : before[i].location = loc}

\* the templates whose location is mapped to region r
TemplatesMappedTo(r) ==
    {i \in Templates : before[i].location \in DOMAIN ecoinvent_to_iam_loc
                       /\ ecoinvent_to_iam_loc[before[i].location] = r}

\* copy is the dataset ds moved to a region: all but the location and the
\* production exchange is the same
IsCopyOf(copy, ds) ==
    /\ copy.name = ds.name
    /\ copy.reference_product = ds.reference_product
    /\ DOMAIN copy.exchanges = DOMAIN ds.exchanges
    /\ \A k \in DOMAIN ds.exchanges :
           ds.exchanges[k].type # "production" => copy.exchanges[k] = ds.exchanges[k]

\* the first of the tiers region, mapped location, RER, RoW, GLO that holds a
\* template
ClaimedTier(r) ==
    IF TemplatesAt(r) # {} THEN TemplatesAt(r)
    ELSE IF TemplatesMappedTo(r) # {} THEN TemplatesMappedTo(r)
    ELSE IF TemplatesAt("RER") # {} THEN TemplatesAt("RER")
    ELSE IF TemplatesAt("RoW") # {} THEN TemplatesAt("RoW")
    ELSE TemplatesAt("GLO")

\* C12 (as stated): fetch_proxies copies for every region the first template
\* in the order region, mapped location, RER, RoW, GLO, and fails only when a
\* region has no template at any of these.
C12_FiveTierOrder ==
    FetchCalled =>
        IF \A r \in Range(self_regions) : ClaimedTier(r) # {}
        THEN /\ FetchReturned
             /\ \A r \in Range(self_regions) :
                    \E i \in ClaimedTier(r) : IsCopyOf(d_act[r], before[i])
        ELSE gpc = "failed"

\* the location the code looks at first for region r: the location of the
\* last template mapped to r, RoW when there is none
FirstLocation(r) ==
    IF TemplatesMappedTo(r) # {} THEN before[SetMax(TemplatesMappedTo(r))].location
    ELSE "RoW"

\* the templates the code chooses from for region r
ChosenTier(r) ==
    IF TemplatesAt(FirstLocation(r)) # {} THEN TemplatesAt(FirstLocation(r))
    ELSE TemplatesAt("GLO")

\* C12 (amended): fetch_proxies copies for every region the template at the
\* location of the last template mapped to the region, RoW when no template
\* is mapped to it, and GLO when there is none at RoW either.  It raises
\* KeyError when a template has a location without a mapping, and otherwise
\* fails when for some region there is not exactly one template at the
\* location chosen.
C12_MappedThenRoWThenGLO ==
    FetchCalled =>
        IF \E i \in Templates : before[i].location \notin DOMAIN ecoinvent_to_iam_loc
        THEN gpc = "failed" /\ graph_raised = "KeyError"
        ELSE IF \A r \in Range(self_regions) : Cardinality(ChosenTier(r)) = 1
        THEN /\ FetchReturned
             /\ \A r \in Range(self_regions) :
                    \A i \in ChosenTier(r) : IsCopyOf(d_act[r], before[i])
        ELSE gpc = "failed" /\ graph_raised \in {"NoResults", "MultipleResults"}

\* fetch_proxies returned copies of three different templates: the one mapped
\* to the region for R1, the one at RoW for R2, which no template is mapped
\* to, and the one at GLO for World
C12_Witness ==
    /\ FetchReturned
    /\ TemplatesAt("RER") # {} /\ TemplatesAt("RoW") # {} /\ TemplatesAt("GLO") # {}
    /\ TemplatesMappedTo("R2") = {}
    /\ \A i \in TemplatesAt("RER") : IsCopyOf(d_act["R1"], before[i])
    /\ \A i \in TemplatesAt("RoW") : IsCopyOf(d_act["R2"], before[i])
    /\ \A i \in TemplatesAt("GLO") : IsCopyOf(d_act["World"], before[i])
    /\ ~ \E i \in TemplatesAt("RoW") : IsCopyOf(d_act["World"], before[i])

\* ------------------------------------------------------------------------
\* Exchanges relink_datasets finds no provider for
\* ------------------------------------------------------------------------

\* the first call made on the object was relink_datasets: the cache was empty
FirstCallRelinked == call.op = "relink_datasets" /\ calls = 1

\* no dataset of the product of the exchange is known in the region of the
\* dataset, under any name
NoCandidate(act, e) ==
    \A t \in list_datasets : ~(t[2] = e.product /\ t[3] = OriginRegion(act))

\* the exchanges of a dataset with the name, product, location and unit of e
ExchangesLike(act, e) ==
    LET same(x) == ExcKey(x) = ExcKey(e) IN SelectSeq(act.exchanges, same)

\* a dangling exchange, at place k of the dataset at place i, that nothing
\* resolves
Unresolvable(i, k) ==
    /\ Processed(i)
    /\ IsDangling(before[i].exchanges[k])
    /\ NoCandidate(before[i], before[i].exchanges[k])

\* C13 (as stated): relink_datasets does not raise and leaves in place, with
\* their amounts, the exchanges of a dataset to a dangling triple that has no
\* cached resolution and no candidate provider.
C13_UnresolvedEdgesKept ==
    FirstCallRelinked =>
        /\ graph_raised = "none"
        /\ \A i \in DOMAIN before : \A k \in DOMAIN before[i].exchanges :
               Unresolvable(i, k) =>
                   ExchangesLike(database[i], before[i].exchanges[k])
                       = ExchangesLike(before[i], before[i].exchanges[k])

\* relink_datasets returned for a dataset with a dangling exchange that
\* nothing resolves
C13_Witness ==
    /\ FirstCallRelinked
    /\ graph_raised = "none"
    /\ \E i \in DOMAIN before : \E k \in DOMAIN before[i].exchanges : Unresolvable(i, k)

\* ------------------------------------------------------------------------
\* Exchanges relink_datasets creates
\* ------------------------------------------------------------------------

\* the exchanges of a dataset that relink_datasets leaves in place (lines
\* 498-503 drop those of excs_to_relink)
KeptExchanges(act) ==
    LET stays(e) == ~IsDangling(e) IN SelectSeq(act.exchanges, stays)

\* the places, in the dataset at place i, of the exchanges the last call of
\* relink_datasets appended (lines 506-516)
CreatedEdges(i) ==
    IF call.op = "relink_datasets" /\ i \in DOMAIN before /\ Processed(i)
    THEN {k \in DOMAIN database[i].exchanges : k > Len(KeptExchanges(before[i]))}
    ELSE {}

\* a dataset of the database has this name, reference product and location
NodeExists(triple) ==
    \E j \in DOMAIN database :
        <<database[j].name, database[j].reference_product, database[j].location>>
            = triple

ChangedCells == {c \in DOMAIN loaded : data.v[c] # loaded[c]}

\* C15 (as stated): no derivation changes a value of the raw cube after it
\* was loaded, so that every derivation reads the values read from the file.
C15_RawCubeUnchanged ==
    /\ DOMAIN data.v = DOMAIN loaded
    /\ ChangedCells = {}

\* the fuel markets were derived from a cube that has a World region and all
\* the fuel variables
C15_Witness ==
    /\ Past("fuel_markets")
    /\ "World" \in data.region
    /\ Values(get_iam_variable_labels("fuels", "iam_aliases", catalogue))
           \subseteq data.variables

\* ------------------------------------------------------------------------
\* Market shares for a year between two tabulated years
\* ------------------------------------------------------------------------

\* the technologies of a sector the cube has, under their premise labels
SectorLabels(sector) ==
    LET labels == get_iam_variable_labels(sector, "iam_aliases", catalogue)
    IN LabelsOf(labels, Values(labels) \cap data.variables)

\* the shares of a sector in the target year, from the values of the cube
\* interpolated linearly to that year
SharesInTargetYear(sector) ==
    LET labels == get_iam_variable_labels(sector, "iam_aliases", catalogue)
    IN InterpolatedShares(
           Relabelled(data, labels, Values(labels) \cap data.variables),
           data.region, SectorLabels(sector), data.year, year)

\* a market derivation ended with KeyError
MarketKeyError ==
    /\ pc = "failed"
    /\ failed_at \in {"electricity_markets", "fuel_markets"}
    /\ raised = "KeyError"

\* C16 (as stated): for every target year within the bounds of the cube,
\* tabulated or not, the electricity and fuel market derivations complete, in
\* the attributional and in the consequential mode, and return the shares of
\* the target year computed from values interpolated linearly to it.
C16_SharesForAnyYearWithinBounds ==
    ~OutOfRange(year, data.year) =>
        /\ ~MarketKeyError
        /\ (Returned("electricity_markets") /\ system_model = "attributional")
               => electricity_markets = SharesInTargetYear("electricity")
        /\ (Returned("fuel_markets") /\ system_model = "attributional")
               => fuel_markets = SharesInTargetYear("fuels")

\* a market derivation was run for a year between two tabulated years
C16_Witness ==
    /\ ~OutOfRange(year, data.year)
    /\ year \notin data.year
    /\ StepIndex(StandsAt) >= StepIndex("electricity_markets")
    /\ pc # "electricity_markets"

\* ------------------------------------------------------------------------
\* Efficiency ratios for a year between two tabulated years
\* ------------------------------------------------------------------------

\* the target year lies strictly between two tabulated years
BetweenTabulated == ~OutOfRange(year, data.year) /\ year \notin data.year

\* the tabulated years next to the target year
LowerYear == SetMax({y \in data.year : y < year})

UpperYear == SetMin({y \in data.year : y > year})

\* the linear interpolation, at the target year, between the ratios to 2020
\* of the two neighbouring rows of the series f
InterpolatedRatio(f) ==
    LET r0 == Div(f[LowerYear], f[RefYear])
        r1 == Div(f[UpperYear], f[RefYear])
    IN Add(r0, Mul(Div(Sub(r1, r0), Num(UpperYear - LowerYear)),
                   Num(year - LowerYear)))

\* the series of an efficiency variable of a region
EfficiencySeries(sector, c) ==
    Series(data, c[1], get_iam_variable_labels(sector, "eff_aliases", catalogue)[c[2]])

\* the electricity and fuel efficiency ratios of the cells picked by `cells`
\* are the corrected (and, for fuels, clipped) interpolation of the ratios of
\* the neighbouring rows
RatiosInterpolated(cells(_, _)) ==
    /\ Returned("electricity_efficiencies") =>
          \A c \in DOMAIN ratios.electricity_efficiencies :
              cells("electricity", c) =>
                  ratios.electricity_efficiencies[c]
                      = CorrectRatio(
                            InterpolatedRatio(EfficiencySeries("electricity", c)), year)
    /\ Returned("fuel_efficiencies") =>
          \A c \in DOMAIN ratios.fuel_efficiencies :
              cells("fuels", c) =>
                  ratios.fuel_efficiencies[c]
                      = ClipRatio(CorrectRatio(
                            InterpolatedRatio(EfficiencySeries("fuels", c)), year))

AnyCell(sector, c) == TRUE

NonZeroReference(sector, c) == EfficiencySeries(sector, c)[RefYear] # Zero

GotShares == fpc = "shared"

RECURSIVE SumOfNumerators(_, _)
\* the numerators of the shares of the keys ks, added up
SumOfNumerators(d, ks) ==
    IF ks = {} THEN Volume(0, 0)
    ELSE LET k == CHOOSE x \in ks : TRUE
         IN AddVolume(d[k].num, SumOfNumerators(d, ks \ {k}))

PositiveVolume(v) == v.w > 0 \/ v.e > 0

\* the production exchanges of the datasets of ds_list, counted
ProductionCount == Len(VolumePairs(ds_list))

\* C18 (as stated): the shares get_shares_from_production_volume returns for
\* a non-empty list of datasets are all positive and total 1, also when a
\* dataset has several production exchanges or two datasets have the same
\* (name, location, reference product, unit).
C18_SharesPositiveAndTotalOne ==
    (GotShares /\ ds_list # << >>) =>
        /\ \A k \in DOMAIN dict_act :
               PositiveVolume(dict_act[k].num) /\ PositiveVolume(dict_act[k].den)
        /\ \E k \in DOMAIN dict_act :
               SumOfNumerators(dict_act, DOMAIN dict_act) = dict_act[k].den

\* the shares were computed for datasets with more production exchanges than
\* keys
C18_Witness ==
    /\ GotShares
    /\ ProductionCount > Cardinality(DOMAIN dict_act)

\* ------------------------------------------------------------------------
\* Exchanges remove_exchanges filters out
\* ------------------------------------------------------------------------

Removed == fpc = "removed"

\* the exchange matches one of the terms
MatchesATerm(x) ==
    x.product # None /\ \E ele \in Range(list_exc) : StrContains(ele, x.product)

\* the exchanges of a dataset that match none of the terms
NonMatching(act) ==
    LET stays(x) == ~MatchesATerm(x) IN SelectSeq(act.exchanges, stays)

\* C19 (as stated): remove_exchanges returns the datasets with the exchanges
\* that match a term of list_exc removed: every list of exchanges holds the
\* non-matching exchanges, unchanged and in their order, and nothing else.
C19_OnlyNonMatchingRemain ==
    Removed =>
        \A r \in DOMAIN datasets_given :
            /\ Len(datasets_dict[r].exchanges) = Len(NonMatching(datasets_given[r]))
            /\ \A k \in DOMAIN datasets_dict[r].exchanges :
                   DOMAIN datasets_dict[r].exchanges[k] # {}
                   /\ datasets_dict[r].exchanges[k] = NonMatching(datasets_given[r])[k]

\* remove_exchanges returned for a dataset with an exchange that matches
C19_Witness ==
    /\ Removed
    /\ \E r \in DOMAIN datasets_given :
           \E k \in DOMAIN datasets_given[r].exchanges :
               MatchesATerm(datasets_given[r].exchanges[k])

\* ------------------------------------------------------------------------
\* Net growth of a technology in the consequential mode
\* ------------------------------------------------------------------------

\* the growth ratio of a technology over the horizon, volume(year + H) /
\* volume(year) - 1, rounded and freed of inf and NaN as in lines 534-553
OwnGrowth(series) ==
    LET growth == Sub(Div(Interp(series, data.year, year + time_horizon),
                          Interp(series, data.year, year)), One)
        rounded == Round3(growth)
        noinf == IF rounded = PInf THEN Zero ELSE rounded
    IN FillNa(noinf, Zero)

\* the growth ratio minus the capital replacement rate -1 / lifetime
GrowthMinusReplacement(z, techs) ==
    [l \in techs |-> Sub(OwnGrowth(z[l]), Div(Num(-1), get_lifetime(l)))]

\* the rows of the electricity technologies of region r, CHP set to zero
ElectricityRows(r) ==
    LET labels == get_iam_variable_labels("electricity", "iam_aliases", catalogue)
        techs == SectorLabels("electricity")
    IN ZeroIgnored(
           Rows(Relabelled(data, labels, Values(labels) \cap data.variables),
                r, techs, data.year),
           techs, data.year)

\* the shares of region r that the sign filter gives from the net growths
\* `net`, in the branch the derivation took for the region
SharesFromNetGrowth(net, r) ==
    LET techs == SectorLabels("electricity")
    IN Normalise(
           WeightByVolume(
               Normalise(KeepBySign(net, printed.electricity[r], techs), techs),
               ElectricityRows(r), techs, year),
           techs)

MarginalElectricity == system_model = "consequential" /\ Returned("electricity_markets")

\* C20 (as stated): in the consequential mode the net growth the sign filter
\* works on is the growth ratio of the technology over the horizon minus its
\* capital replacement rate -1 / lifetime, that is growth + 1 / lifetime, so
\* that the marginal shares are the ones this net growth gives.
C20_NetGrowthIsGrowthPlusInverseLifetime ==
    MarginalElectricity =>
        \A r \in data.region : \A l \in SectorLabels("electricity") :
            electricity_markets[<<r, l>>]
                = SharesFromNetGrowth(
                      GrowthMinusReplacement(ElectricityRows(r),
                                             SectorLabels("electricity")), r)[l]

\* the marginal electricity shares were derived for a region with a
\* technology that grows over the horizon
C20_Witness ==
    /\ MarginalElectricity
    /\ \E l \in SectorLabels("electricity") :
           Gt(OwnGrowth(ElectricityRows("R1")[l]), Zero)

\* ------------------------------------------------------------------------
\* The marginal shares of a region
\* ------------------------------------------------------------------------

\* the shares of region r in a cube over (region, technology), added up
MarginalSum(cube, r) ==
    SumOver(LabelsIn(cube), [l \in LabelsIn(cube) |-> cube[<<r, l>>]])

\* the shares of every region are numbers that are not negative and total 1,
\* and the technologies with CHP or biomethane in their name have the share 0
WellFormedMarginalShares(cube) ==
    \A r \in data.region :
        /\ \A l \in LabelsIn(cube) : Le(Zero, cube[<<r, l>>])
        /\ MarginalSum(cube, r) = One
        /\ \A l \in TechToIgnore(LabelsIn(cube)) : cube[<<r, l>>] = Zero

\* C21 (as stated): in the consequential mode the marginal shares of every
\* region are non-negative, never NaN and total 1 over the technologies, and
\* every technology with CHP or biomethane in its name has the share 0.
C21_MarginalSharesWellFormed ==
    /\ MarginalElectricity => WellFormedMarginalShares(electricity_markets)
    /\ (system_model = "consequential" /\ Returned("fuel_markets"))
           => WellFormedMarginalShares(fuel_markets)

\* the marginal electricity shares were derived from volumes that are all
\* positive in every region and year
C21_Witness ==
    /\ MarginalElectricity
    /\ \A c \in DOMAIN loaded : loaded[c] > 0

\* ------------------------------------------------------------------------
\* The provider relink_datasets picks on a cache miss
\* ------------------------------------------------------------------------

\* the keys of the dangling exchanges of the dataset at place i, in the order
\* the last call walked them
KeysWalked(i) ==
    UniqueExcsToRelink(ExcsToRelink(before[i], list_datasets), call.order)

\* the cache held no provider for the key when the last call started, and no
\* dataset walked earlier in the call could store one
CacheMiss(i, key) ==
    /\ ~(before[i].location \in DOMAIN call.cache
         /\ key \in DOMAIN call.cache[before[i].location])
    /\ \A j \in 1..(i - 1) :
           (Processed(j) /\ before[j].location = before[i].location)
               => key \notin Range(KeysWalked(j))

\* the name of the exchange, then the names the caller gave
NamesOf(key) == <<key[1]>> \o call.alternative_names

\* the place in NamesOf(key) of the first name that is a known dataset in the
\* region of the dataset at place i; 0 when there is none
NamedCandidate(i, key) ==
    FirstCandidate(NamesOf(key), key[2], OriginRegion(before[i]), list_datasets)

RECURSIVE NamedTargets(_, _)
\* the providers of the keys that have a candidate among their names, in the
\* order of the keys
NamedTargets(i, keys) ==
    IF keys = << >> THEN << >>
    ELSE (IF NamedCandidate(i, Head(keys)) = 0 THEN << >>
          ELSE <<<<NamesOf(Head(keys))[NamedCandidate(i, Head(keys))], Head(keys)[2],
                   OriginRegion(before[i])>>>>)
         \o NamedTargets(i, Tail(keys))

\* the providers of the exchanges the last call appended to the dataset at
\* place i, in their order
CreatedTargets(i) ==
    [k \in 1..(Len(database[i].exchanges) - Len(KeptExchanges(before[i]))) |->
        Triple(database[i].exchanges[Len(KeptExchanges(before[i])) + k])]

\* relink_datasets walked the dataset at place i and met only cache misses
WalkedWithoutCache(i) ==
    /\ RelinkReturned
    /\ Processed(i)
    /\ \A k \in DOMAIN KeysWalked(i) : CacheMiss(i, KeysWalked(i)[k])

\* C22 (as stated): on a cache miss relink_datasets resolves a dangling
\* exchange to the first known dataset among its own name and then the names
\* the caller gave, in the region of the dataset; the provider never has a
\* name outside this list, whatever was processed earlier in the call.
C22_ProviderAmongOwnAndGivenNames ==
    \A i \in DOMAIN before :
        WalkedWithoutCache(i) => CreatedTargets(i) = NamedTargets(i, KeysWalked(i))

\* relink_datasets resolved an exchange of a dataset that has another
\* dangling exchange, after fetch_proxies
C22_Witness ==
    \E i \in DOMAIN before :
        /\ WalkedWithoutCache(i)
        /\ Len(KeysWalked(i)) > 1
        /\ NamedTargets(i, KeysWalked(i)) # << >>

\* ------------------------------------------------------------------------
\* The cache of relink_datasets
\* ------------------------------------------------------------------------

\* every entry of the cache c is in the cache d, with the same provider
CacheWithin(c, d) ==
    \A loc \in DOMAIN c :
        /\ loc \in DOMAIN d
        /\ \A key \in DOMAIN c[loc] : key \in DOMAIN d[loc] /\ d[loc][key] = c[loc][key]

\* the cache held a provider for the key and the location of the dataset at
\* place i when the last call of relink_datasets started
StoredHit(i, key) ==
    /\ before[i].location \in DOMAIN call.cache
    /\ key \in DOMAIN call.cache[before[i].location]

\* the dataset at place i has, among the exchanges the last call appended, one
\* to the provider the cache held for the key
RewrittenToStored(i, key) ==
    \E k \in CreatedEdges(i) :
        ExcKey(database[i].exchanges[k]) = call.cache[before[i].location][key]

SteelPathways == {"steel - primary", "steel - secondary"}

\* the efficiency variable of the pathway is in the cube
DirectTier(p) ==
    LET eff == get_iam_variable_labels("steel", "eff_aliases", catalogue)
    IN p \in DOMAIN eff /\ eff[p] \in data.variables

\* the energy-use and production variables of the pathway are in the cube
DerivedTier(p) ==
    LET energy == get_iam_variable_labels("steel", "energy_use_aliases", catalogue)
        prod == get_iam_variable_labels("steel", "iam_aliases", catalogue)
    IN /\ p \in DOMAIN energy
       /\ energy[p] \subseteq data.variables
       /\ prod[p] \in data.variables

\* the series the tiers give for the pathway in region r
TierSeries(r, p) ==
    IF DirectTier(p)
    THEN InverseSeries(data, r,
             get_iam_variable_labels("steel", "eff_aliases", catalogue)[p])
    ELSE IF DerivedTier(p)
    THEN EnergyIntensitySeries(data, r,
             get_iam_variable_labels("steel", "energy_use_aliases", catalogue)[p],
             get_iam_variable_labels("steel", "iam_aliases", catalogue)[p])
    ELSE OnesSeries(data)

\* C24 (as stated): the steel efficiency of each pathway is the direct
\* efficiency alias when that variable is in the cube, otherwise the ratio
\* derived from the energy-use and production variables when those are in the
\* cube, otherwise the neutral ratio 1; the derivation never raises because a
\* variable is missing.
C24_SteelThreeTiers ==
    (~OutOfRange(year, data.year) /\ RefYear \in data.year) =>
        /\ ~FailedAt("steel_efficiencies")
        /\ Returned("steel_efficiencies") =>
              \A r \in data.region : \A p \in SteelPathways :
                  ratios.steel_efficiencies[<<r, p>>]
                      = ClipRatio(CorrectRatio(
                            RatioToRef(TierSeries(r, p), data.year, year), year))

\* the steel efficiencies were derived from, or failed on, a cube that lacks
\* a steel variable
C24_Witness ==
    /\ StepIndex(StandsAt) >= StepIndex("steel_efficiencies")
    /\ pc # "steel_efficiencies"
    /\ ~OutOfRange(year, data.year)
    /\ \E p \in SteelPathways : ~DirectTier(p) /\ ~DerivedTier(p)

\* ------------------------------------------------------------------------
\* The World region in the fuel markets
\* ------------------------------------------------------------------------

\* the fuel variables the cube has
FuelVariablesPresent == Values(FuelIamAliases) \cap data.variables

\* the loaded cube with the World value of every fuel variable it has
\* replaced by the sum over the other regions
WithWorldSums ==
    [data EXCEPT !.v =
        [c \in DOMAIN loaded |->
            IF c[1] = "World" /\ c[2] \in FuelVariablesPresent
            THEN IntSum(data.region \ {"World"},
                        [r \in data.region \ {"World"} |-> loaded[<<r, c[2], c[3]>>]])
            ELSE loaded[c]]]

\* the fuel shares of the target year from the cube with the World sums
SharesWithWorldSums ==
    InterpolatedShares(
        Relabelled(WithWorldSums, FuelIamAliases, FuelVariablesPresent),
        data.region, LabelsOf(FuelIamAliases, FuelVariablesPresent), data.year, year)

\* the World value of the fuel technology l is zero in the file in some year
WorldIsZero(l) ==
    \E y \in data.year : loaded[<<"World", FuelIamAliases[l], y>>] = 0

\* C25 (as stated): in the fuel market derivation the World value of a fuel
\* technology that is in the cube and whose World value is zero is, for the
\* shares, the sum of the technology over the other regions, also when other
\* fuel technologies are missing from the cube.
C25_WorldIsSumOfRegions ==
    (Attributional("fuel_markets") /\ "World" \in data.region) =>
        \A l \in LabelsOf(FuelIamAliases, FuelVariablesPresent) :
            WorldIsZero(l) => fuel_markets[<<"World", l>>] = SharesWithWorldSums[<<"World", l>>]

\* the fuel markets were derived from a cube that lacks a fuel technology and
\* has a zero World value for another that the other regions produce
C25_Witness ==
    /\ Attributional("fuel_markets")
    /\ FuelVariablesPresent # Values(FuelIamAliases)
    /\ \E l \in LabelsOf(FuelIamAliases, FuelVariablesPresent) :
           WorldIsZero(l) /\ \E r \in data.region \ {"World"} :
               loaded[<<r, FuelIamAliases[l], 2020>>] > 0

\* ------------------------------------------------------------------------
\* Steel.get_carbon_capture_energy_inputs (steel.py)
\* ------------------------------------------------------------------------

\* largest amount of CO2 a steel production dataset emits
MaxCO2 == 2

\* self.geo.iam_to_ecoinvent_location(loc): the locations of the database
\* that ecoinvent_to_iam_location maps to the scenario region
iam_to_ecoinvent_location(loc) ==
    CASE loc = "R1" -> <<"RER">>
      [] loc = "R2" -> <<"US">>
      [] OTHER -> <<"GLO", "RoW">>

\* BaseTransformation.get_carbon_capture_rate(loc, sector); rates is
\* self.iam_data.carbon_capture_rate
rate_of_sector(rates, loc, sector) ==
    IF sector \in {c[2] : c \in DOMAIN rates}
    THEN (IF <<loc, sector>> \in DOMAIN rates THEN Return(rates[<<loc, sector>>])
          ELSE Raise("KeyError"))
    ELSE Return(Zero)

\* get_suppliers_of_a_region(database, locations, names, reference_product, unit)
get_suppliers_of_a_region(db, locations, names, reference_product, unit) ==
    LET found(ds) ==
            /\ \E supplier \in Range(names) : StrContains(supplier, ds.name)
            /\ \E l \in Range(locations) : ds.location = l
            /\ StrContains(reference_product, ds.reference_product)
            /\ ds.unit = unit
    IN SelectSeq(db, found)

RECURSIVE SuppliersLoop(_, _, _, _, _, _)
\* the loop `while len(suppliers) == 0` entered with an empty `suppliers`:
\* the suppliers it ends with and the counter after it; possible_locations[counter]
\* of the code is possible_locations[counter + 1] here
SuppliersLoop(db, possible_locations, counter, names, reference_product, unit) ==
    IF counter + 1 > Len(possible_locations) THEN Raise("IndexError")
    ELSE LET suppliers ==
                 get_suppliers_of_a_region(db, possible_locations[counter + 1], names,
                                           reference_product, unit)
         IN IF Len(suppliers) = 0
            THEN SuppliersLoop(db, possible_locations, counter + 1, names,
                               reference_product, unit)
            ELSE Return([suppliers |-> suppliers, counter |-> counter + 1])

RECURSIVE KeysInOrder(_)
\* the keys of dict_act in the order of their first assignment, the order
\* in which .items() lists them
KeysInOrder(pairs) ==
    IF pairs = << >> THEN << >>
    ELSE LET rest == KeysInOrder(SubSeq(pairs, 1, Len(pairs) - 1))
             key == pairs[Len(pairs)][1]
         IN IF key \in Range(rest) THEN rest ELSE Append(rest, key)

\* carbon_capture_electricity = (amount_co2 * rate) * (0.146 + 0.024)
CarbonCaptureElectricity(amount_co2, rate) ==
    Mul(Mul(Num(amount_co2), rate), Fin(17, 100))

\* carbon_capture_heat = (amount_co2 * rate) * 3.48
CarbonCaptureHeat(amount_co2, rate) ==
    Mul(Mul(Num(amount_co2), rate), Fin(348, 100))

\* the exchange appended for one supplier; supplier is the key (name,
\* location, reference product, unit), and the amount energy * share is kept
\* as its two factors
EnergyExchange(supplier, energy, share) ==
    [Exchange(supplier[1], supplier[3], supplier[2], supplier[4],
              [energy |-> energy, share |-> share], "technosphere")
        EXCEPT !.production_volume = Num(0)]

\* the exchanges the loop over suppliers.items() appends
EnergyExchanges(suppliers, energy) ==
    LET keys == KeysInOrder(VolumePairs(suppliers))
        shares == get_shares_from_production_volume(suppliers)
    IN [i \in DOMAIN keys |-> EnergyExchange(keys[i], energy, shares[keys[i]])]

\* the second half of the method, from carbon_capture_heat on; `suppliers`
\* still holds the shares of the electricity suppliers, and the counter
\* is where the first loop left it
HeatExchanges(db, possible_locations, counter, electricity, energy) ==
    IF Len(electricity) > 0
    \* the loop is skipped, and get_shares_from_production_volume is given
    \* the dictionary of shares: ws.production reads its key "exchanges"
    THEN Raise("KeyError")
    ELSE LET found ==
                 SuppliersLoop(db, possible_locations, counter,
                     <<"steam production, as energy carrier, in chemical industry">>,
                     "heat, from steam, in chemical industry", "megajoule")
         IN IF found.exc # "none" THEN found
            ELSE Return(EnergyExchanges(found.val.suppliers, energy))

\* Steel.get_carbon_capture_energy_inputs(amount_co2, loc, sector)
get_carbon_capture_energy_inputs(db, rates, amount_co2, loc, sector) ==
    LET looked_up == rate_of_sector(rates, loc, sector)
        rate == looked_up.val
        possible_locations ==
            <<(<<loc>>), iam_to_ecoinvent_location(loc), (<<"RER">>), (<<"RoW">>)>>
        found ==
            SuppliersLoop(db, possible_locations, 0, <<"electricity, medium voltage">>,
                          "electricity", "kilowatt hour")
        electricity ==
            EnergyExchanges(found.val.suppliers,
                            CarbonCaptureElectricity(amount_co2, rate))
        heat ==
            HeatExchanges(db, possible_locations, found.val.counter, electricity,
                          CarbonCaptureHeat(amount_co2, rate))
    IN IF looked_up.exc # "none" THEN looked_up
       ELSE IF ~Gt(rate, Zero) THEN Return([rate |-> rate, new_exchanges |-> << >>])
       ELSE IF found.exc # "none" THEN found
       ELSE IF heat.exc # "none" THEN heat
       ELSE Return([rate |-> rate, new_exchanges |-> electricity \o heat.val])

\* no electricity market at a location
NoMarket == [k |-> "absent", n |-> 0, d |-> 1]

\* an electricity market without a production exchange
NoProduction == [k |-> "bare", n |-> 0, d |-> 1]

\* a medium voltage electricity market of a location
ElectricityDataset(l, pv) ==
    Dataset("market for electricity, medium voltage", "electricity, medium voltage",
            l, "kilowatt hour",
            IF pv = NoProduction THEN <<BiosphereExchange>>
            ELSE <<[ProductionExchange("market for electricity, medium voltage",
                                       "electricity, medium voltage", l,
                                       "kilowatt hour")
                       EXCEPT !.production_volume = pv]>>)

\* a steam production dataset of a location
SteamDataset(l) ==
    Dataset("steam production, as energy carrier, in chemical industry",
            "heat, from steam, in chemical industry", l, "megajoule",
            <<ProductionExchange(
                  "steam production, as energy carrier, in chemical industry",
                  "heat, from steam, in chemical industry", l, "megajoule")>>)

\* what the database holds of electricity at one location: nothing, a
\* market without a production exchange, or a market with a production volume
ElectricityChoices == {NoMarket, NoProduction, NoVolume, Num(MaxVolume)}

\* the database of a steel transformation: electricity markets in the
\* scenario region R1, in RER and in RoW, steam production in RER and in RoW
EnergyDatabase(e, steam) ==
    LET at(l) == IF e[l] = NoMarket THEN << >> ELSE <<ElectricityDataset(l, e[l])>>
    IN at("R1") \o at("RER") \o at("RoW")
       \o (IF "RER" \in steam THEN <<SteamDataset("RER")>> ELSE << >>)
       \o (IF "RoW" \in steam THEN <<SteamDataset("RoW")>> ELSE << >>)

\* the capture rates the scenario data can hold
CaptureRates == {NaN, Zero, Fin(1, 2), One}

\* ------------------------------------------------------------------------
\* create_fleet_vehicles (transport.py), for vehicles other than trucks
\* ------------------------------------------------------------------------

\* the name of a dataset is kept as the parts name.split(", ") gives; the
\* part that spells a year is kept as the number it spells, which is what
\* int() makes of it and what an f-string prints for either
VehicleName(pwt, size, yr) == <<"transport", "passenger car", pwt, size, yr>>

\* a vehicle dataset of the imported inventories
VehicleDataset(pwt, size, yr) ==
    Dataset(VehicleName(pwt, size, yr), "transport, passenger car", "GLO",
            "kilometer", << >>)

\* a dataset of the imported inventories that is not a vehicle
BatteryDataset == Dataset(<<"battery production">>, "battery", "GLO", "kilogram", << >>)

\* vehicles_map["powertrain"]
PowertrainMap == [p \in {"battery electric"} |-> "BEV"]

\* vehicles_map[vehicle_type]["sizes"], ["name"] and ["unit"]
VehicleSizes == <<"Medium">>

FleetVehicleName == "transport, passenger car"

FleetVehicleUnit == "kilometer"

\* f"{vehicles_map[vehicle_type]['name']}, unspecified"
FleetAverageName == "transport, passenger car, unspecified"

\* eidb_label(model, scenario, year)
eidb_label(model, scenario, yr) == <<"ecoinvent", model, scenario, yr>>

\* lines 140-154: fleet data does not go below 2015 nor beyond 2050
FleetYear(yr) == IF yr < 2015 THEN 2015 ELSE IF yr > 2050 THEN 2050 ELSE yr

\* np.arange(2000, 2055, 5)
AvailableYears == {2000 + 5 * i : i \in 0..10}

\* min(available_years, key=lambda x: abs(x - year)): the first of the
\* nearest years
NearestYear(yr) ==
    LET nearest == {x \in AvailableYears :
                       \A y \in AvailableYears : Abs(x - yr) <= Abs(y - yr)}
    IN SetMin(nearest)

\* dataset["name"].startswith("transport, ")
IsTransport(name) == Len(name) > 1 /\ name[1] = "transport"

\* the parts pwt, size, year a car or bus name is unpacked into (lines
\* 165-172 and 191-198)
NameParts(name) ==
    IF Len(name) = 6
    THEN (IF name[3] = "battery electric"
          THEN [pwt |-> name[3], size |-> name[5], year |-> name[6]]
          ELSE [pwt |-> name[3], size |-> name[4], year |-> name[5]])
    ELSE [pwt |-> name[3], size |-> name[4], year |-> name[5]]

RECURSIVE DatasetsLoop(_, _)
\* the loop over the datasets (lines 162-217): available_ds, d_names and
\* the local variable year, which the unpacking of a name assigns
DatasetsLoop(datasets, yr) ==
    IF datasets = << >> THEN [available_ds |-> {}, d_names |-> << >>, year |-> yr]
    ELSE LET before_last ==
                 DatasetsLoop(SubSeq(datasets, 1, Len(datasets) - 1), yr)
             dataset == datasets[Len(datasets)]
             parts == NameParts(dataset.name)
             key == <<PowertrainMap[parts.pwt], parts.size, parts.year>>
         IN IF ~IsTransport(dataset.name) THEN before_last
            ELSE [available_ds |-> before_last.available_ds \cup {key},
                  d_names |-> [k \in DOMAIN before_last.d_names \cup {key} |->
                                  IF k = key
                                  THEN <<dataset.name, dataset.reference_product,
                                         dataset.unit>>
                                  ELSE before_last.d_names[k]],
                  year |-> parts.year]

\* sel.sum() for a region: the kilometres of every cell of the selection
TotalKm(arr, region) ==
    LET cells == Range(arr.powertrain) \X Range(arr.construction_year)
                 \X Range(VehicleSizes)
    IN SumOver(cells, [c \in cells |-> Num(arr.km[<<region, c[1], c[2], c[3]>>])])

\* the cells (size, construction year, powertrain) in the order of the three
\* nested loops of lines 291-293
LoopCells(arr) ==
    LET in_file(s) == s \in arr.size
        sizes == SelectSeq(VehicleSizes, in_file)
        n_y == Len(arr.construction_year)
        n_p == Len(arr.powertrain)
    IN [i \in 1..(Len(sizes) * n_y * n_p) |->
           [size |-> sizes[((i - 1) \div (n_y * n_p)) + 1],
            year |-> arr.construction_year[(((i - 1) \div n_p) % n_y) + 1],
            pwt |-> arr.powertrain[((i - 1) % n_p) + 1]]]

\* the exchange appended for one cell, if any (lines 294-327)
FleetExchange(arr, region, found, cell) ==
    LET indiv_km == arr.km[<<region, cell.pwt, cell.year, cell.size>>]
        to_look_for == <<cell.pwt, cell.size, cell.year>>
    IN IF indiv_km > 0 /\ to_look_for \in found.available_ds
          /\ to_look_for \in DOMAIN found.d_names
       THEN <<Exchange(found.d_names[to_look_for][1], found.d_names[to_look_for][2],
                       region, found.d_names[to_look_for][3],
                       Div(Num(indiv_km), TotalKm(arr, region)), "technosphere")>>
       ELSE << >>

RECURSIVE FleetExchanges(_, _, _, _)
FleetExchanges(arr, region, found, cells) ==
    IF cells = << >> THEN << >>
    ELSE FleetExchange(arr, region, found, Head(cells))
         \o FleetExchanges(arr, region, found, Tail(cells))

\* the dataset built for one region (lines 271-289), with the value the
\* local variable year has when the dictionary is built
FleetDataset(arr, region, found, model, scenario, yr) ==
    [name |-> FleetAverageName,
     reference_product |-> FleetVehicleName,
     unit |-> FleetVehicleUnit,
     location |-> region,
     exchanges |-> <<ProductionExchange(FleetAverageName, FleetVehicleName, region,
                                        FleetVehicleUnit)>>
                   \o FleetExchanges(arr, region, found, LoopCells(arr)),
     database |-> eidb_label(model, scenario, yr),
     comment |-> [year |-> yr, region |-> region]]

RECURSIVE RegionsLoop(_, _, _, _, _, _)
\* the loop over the regions (lines 243-330): list_act and the local
\* variable year, which the loop over the construction years assigns
RegionsLoop(arr, regions, found, model, scenario, yr) ==
    IF regions = << >> THEN [list_act |-> << >>, year |-> yr]
    ELSE LET earlier ==
                 RegionsLoop(arr, SubSeq(regions, 1, Len(regions) - 1), found,
                             model, scenario, yr)
             region == regions[Len(regions)]
             cells == LoopCells(arr)
             act == FleetDataset(arr, region, found, model, scenario, earlier.year)
         IN IF ~Gt(TotalKm(arr, region), Zero) THEN earlier
            ELSE [list_act |-> IF Len(act.exchanges) > 1
                               THEN Append(earlier.list_act, act)
                               ELSE earlier.list_act,
                  year |-> IF cells = << >> THEN earlier.year
                           ELSE cells[Len(cells)].year]

\* create_fleet_vehicles(datasets, regions_mapping, vehicle_type, year, model,
\* scenario, regions); arr is the fleet composition file as an array, cut
\* at the reference year
create_fleet_vehicles(datasets, arr, yr, model, scenario, regions) ==
    LET fleet_year == FleetYear(yr)
        ref_year == NearestYear(fleet_year)
        found == DatasetsLoop(datasets, fleet_year)
    IN IF ref_year \notin arr.year THEN Raise("KeyError")
       \* d_missing_regions names no region of the model
       ELSE IF \E i \in DOMAIN regions : regions[i] \notin arr.region
            THEN Raise("KeyError")
       ELSE Return(RegionsLoop(arr, regions, found, model, scenario,
                               found.year).list_act)

\* the years a vehicle is built in, in the order of the coordinate
ConstructionYears == <<2020, 2030>>

\* the fleet composition: kilometres per region, powertrain, construction
\* year and size, the same in every year of the file
FleetArrays ==
    {[year |-> AvailableYears, region |-> {"R1", "R2"}, size |-> {"Medium"},
      powertrain |-> <<"BEV">>, construction_year |-> ConstructionYears,
      km |-> [c \in {"R1", "R2"} \X {"BEV"} \X Range(ConstructionYears)
                     \X {"Medium"} |-> f[<<c[1], c[3]>>]]] :
        f \in [{"R1", "R2"} \X Range(ConstructionYears) -> 0..1]}

\* the inventories handed over: vehicles built in one or two of the
\* years, with or without a dataset that is no vehicle
VehicleInventories ==
    LET v(y) == VehicleDataset("battery electric", "Medium", y)
    IN {<<v(2020)>>, <<v(2030)>>, <<v(2020), v(2030)>>, <<v(2030), v(2020)>>,
        <<v(2030), BatteryDataset>>, <<BatteryDataset>>}

\* the years a database is made for
FleetYears == {2010, 2020, 2030, 2060}

\* ------------------------------------------------------------------------
\* Calls of the two
\* ------------------------------------------------------------------------

InitMethods ==
    /\ NoFunctionCall
    /\ \/ /\ mpc = "capture"
          /\ \E e \in [{"R1", "RER", "RoW"} -> ElectricityChoices],
                steam \in SUBSET {"RER", "RoW"}, rate \in CaptureRates,
                amount_co2 \in 1..MaxCO2, loc \in {"R1", "R2"},
                sector \in {"steel", "paper"} :
                /\ InitTransformation(EnergyDatabase(e, steam), <<"R1", "R2", "World">>,
                       [c \in Regions \X {"cement", "steel"} |->
                           IF c = <<loc, "steel">> THEN rate ELSE Zero])
                /\ capture_call =
                       [amount_co2 |-> amount_co2, loc |-> loc, sector |-> sector]
          /\ fleet_call = None
       \/ /\ mpc = "fleet"
          /\ InitGraphOf(<< >>, <<"R1", "R2", "World">>)
          /\ capture_call = None
          /\ \E datasets \in VehicleInventories, arr \in FleetArrays,
                yr \in FleetYears :
                fleet_call = [datasets |-> datasets, arr |-> arr, year |-> yr,
                              model |-> "image", scenario |-> "SSP2",
                              regions |-> <<"R1", "R2">>]
    /\ capture_returned = None
    /\ list_act = None

GetCarbonCaptureEnergyInputs ==
    /\ mpc = "capture"
    /\ capture_returned' =
           get_carbon_capture_energy_inputs(database, carbon_capture_rate,
               capture_call.amount_co2, capture_call.loc, capture_call.sector)
    /\ mpc' = "captured"
    /\ UNCHANGED <<capture_call, fleet_call, list_act>>
    /\ UNCHANGED <<dvars, gvars, fvars>>

CreateFleetVehicles ==
    /\ mpc = "fleet"
    /\ list_act' =
           create_fleet_vehicles(fleet_call.datasets, fleet_call.arr, fleet_call.year,
               fleet_call.model, fleet_call.scenario, fleet_call.regions)
    /\ mpc' = "fleet made"
    /\ UNCHANGED <<capture_call, capture_returned, fleet_call>>
    /\ UNCHANGED <<dvars, gvars, fvars>>

NextMethods ==
    \/ GetCarbonCaptureEnergyInputs
    \/ CreateFleetVehicles

SpecMethods == InitMethods /\ [][NextMethods]_vars

\* ------------------------------------------------------------------------
\* C26
\* ------------------------------------------------------------------------

\* the capture rate of the call under study
CalledRate ==
    rate_of_sector(carbon_capture_rate, capture_call.loc, capture_call.sector).val

\* the first non-empty set of suppliers in the order: the region itself,
\* the locations of the database mapped to it, RER, RoW
FirstSuppliers(names, reference_product, unit) ==
    SuppliersLoop(database,
        <<(<<capture_call.loc>>), iam_to_ecoinvent_location(capture_call.loc),
          (<<"RER">>), (<<"RoW">>)>>,
        0, names, reference_product, unit)

ElectricitySuppliers ==
    FirstSuppliers(<<"electricity, medium voltage">>, "electricity", "kilowatt hour")

SteamSuppliers ==
    FirstSuppliers(<<"steam production, as energy carrier, in chemical industry">>,
                   "heat, from steam, in chemical industry", "megajoule")

\* the suppliers a list of datasets stands for
KeysOf(suppliers) == {DatasetKey(suppliers[i]) : i \in DOMAIN suppliers}

RECURSIVE SharesOf(_)
\* the numerators of the shares of a list of exchanges, added up
SharesOf(excs) ==
    IF excs = << >> THEN Volume(0, 0)
    ELSE AddVolume(Head(excs).amount.share.num, SharesOf(Tail(excs)))

\* the exchanges are drawn from the suppliers, one per supplier, and their
\* amounts total the energy
TotalsFrom(excs, suppliers, energy) ==
    /\ {<<excs[i].name, excs[i].location, excs[i].product, excs[i].unit>> :
           i \in DOMAIN excs} = KeysOf(suppliers)
    /\ Len(excs) = Cardinality(KeysOf(suppliers))
    /\ \A i \in DOMAIN excs :
          /\ excs[i].amount.energy = energy
          /\ excs[i].amount.share.den = SharesOf(excs)

\* C26: when the capture rate of the region and sector is positive and the
\* database holds an electricity and a steam supplier in one of the locations
\* searched, get_carbon_capture_energy_inputs returns electricity exchanges
\* that total amount_co2 * rate * 0.17 kWh, drawn from the first non-empty set
\* of medium voltage electricity datasets, and heat exchanges that total
\* amount_co2 * rate * 3.48 MJ, drawn from the first non-empty set of steam
\* production datasets
C26_CaptureEnergyFromFirstSuppliers ==
    (/\ mpc = "captured"
     /\ Gt(CalledRate, Zero)
     /\ ElectricitySuppliers.exc = "none"
     /\ SteamSuppliers.exc = "none")
    => /\ capture_returned.exc = "none"
       /\ LET excs == capture_returned.val.new_exchanges
              is_electricity(e) == e.unit = "kilowatt hour"
              is_heat(e) == e.unit = "megajoule"
          IN /\ \A i \in DOMAIN excs : is_electricity(excs[i]) \/ is_heat(excs[i])
             /\ TotalsFrom(SelectSeq(excs, is_electricity),
                           ElectricitySuppliers.val.suppliers,
                           CarbonCaptureElectricity(capture_call.amount_co2,
                                                    CalledRate))
             /\ TotalsFrom(SelectSeq(excs, is_heat), SteamSuppliers.val.suppliers,
                           CarbonCaptureHeat(capture_call.amount_co2, CalledRate))

\* the method was called with a positive capture rate on a database that
\* holds electricity in the region and steam elsewhere
C26_Witness ==
    /\ mpc = "captured"
    /\ Gt(CalledRate, Zero)
    /\ ElectricitySuppliers.exc = "none"
    /\ SteamSuppliers.exc = "none"
    /\ ElectricitySuppliers.val.counter = 1
    /\ SteamSuppliers.val.counter > 1

\* ------------------------------------------------------------------------
\* C27
\* ------------------------------------------------------------------------

\* C27: every fleet-average dataset create_fleet_vehicles returns carries
\* the requested year, clamped into [2015, 2050], in its database label and
\* in its comment
C27_FleetDatasetsCarryFleetYear ==
    (mpc = "fleet made" /\ list_act.exc = "none")
    => \A i \in DOMAIN list_act.val :
          /\ list_act.val[i].database =
                 eidb_label(fleet_call.model, fleet_call.scenario,
                            FleetYear(fleet_call.year))
          /\ list_act.val[i].comment.year = FleetYear(fleet_call.year)

\* a fleet-average dataset was made for each of the two regions, for a
\* year outside the years the fleet data covers
C27_Witness ==
    /\ mpc = "fleet made"
    /\ list_act.exc = "none"
    /\ Len(list_act.val) = 2
    /\ fleet_call.year > 2050

\* ------------------------------------------------------------------------
\* Exchanges relink_datasets has no provider for, after one it resolved
\* ------------------------------------------------------------------------

\* the cache holds a provider for the key at the location of the dataset at
\* place i: the last call found it there or stored it
Resolved(i, key) ==
    /\ before[i].location \in DOMAIN cache
    /\ key \in DOMAIN cache[before[i].location]

\* the places in KeysWalked(i) of the keys with a provider
ResolvedKeys(i) ==
    {k \in DOMAIN KeysWalked(i) : Resolved(i, KeysWalked(i)[k])}

\* C28: relink_datasets adds an exchange to a dataset only for a dangling
\* exchange it has a provider for, cached or found among the known datasets:
\* a processed dataset gains as many exchanges as it has dangling triples
\* with a provider, and none for a triple without one, also when an earlier
\* exchange of the dataset or of an earlier dataset was resolved in the call
C28_NoEdgeWithoutResolution ==
    RelinkReturned =>
        \A i \in DOMAIN before :
            Processed(i) => Cardinality(CreatedEdges(i)) = Cardinality(ResolvedKeys(i))

\* relink_datasets resolved a dangling exchange of one dataset and then
\* walked a dataset with a dangling exchange it has no provider for
C28_Witness ==
    /\ RelinkReturned
    /\ \E i, j \in DOMAIN before :
          /\ j < i
          /\ Processed(j) /\ ResolvedKeys(j) # {}
          /\ Processed(i) /\ ResolvedKeys(i) # DOMAIN KeysWalked(i)

\* ------------------------------------------------------------------------
\* self.list_datasets and the database
\* ------------------------------------------------------------------------

\* the (name, reference product, location) of a dataset
IdentityOf(act) == <<act.name, act.reference_product, act.location>>

\* the identities of the datasets the database holds
DatabaseIdentities == {IdentityOf(database[i]) : i \in DOMAIN database}

\* the identities of the proxies the last fetch_proxies returned
ProxyIdentities == {IdentityOf(d_act[r]) : r \in DOMAIN d_act}

\* the places of the datasets the last fetch_proxies removed from the database
DeletedTemplates == {i \in DOMAIN before : before[i] \notin Range(database)}

SameButExchanges(i) == [database[i] EXCEPT !.exchanges = before[i].exchanges] = before[i]

\* the exchanges of the dataset at place i that are not dangling technosphere
\* exchanges are the first exchanges of the dataset after the call, in their
\* order and with every field as it was
NonDanglingKept(i) ==
    /\ Len(database[i].exchanges) >= Len(KeptExchanges(before[i]))
    /\ SubSeq(database[i].exchanges, 1, Len(KeptExchanges(before[i])))
           = KeptExchanges(before[i])

====
